---------------------------- MODULE Spec2Model ----------------------------
(***************************************************************************)
(* A model of the hubspot-schema-inspector command line client.            *)
(*                                                                         *)
(* The module follows one run of `verify <objectA> <objectB>`              *)
(* (verifyAssociationsCommand in src/src/hubspot-client.ts) against a      *)
(* remote gateway whose answers are nondeterministic.                      *)
(*                                                                         *)
(* Strings are sequences of one-character strings, so that toLowerCase,    *)
(* includes and startsWith are computed and not assumed.  An optional      *)
(* value (T | null | undefined) is a sequence of length 0 or 1.            *)
(***************************************************************************)
EXTENDS Integers, Sequences, FiniteSets, TLC

(***************************************************************************)
(* Bounds of the model.                                                    *)
(***************************************************************************)
\* longest schema directory the gateway answers with
MaxSchemas == 2
\* longest list of association definitions the gateway answers with
MaxDefs == 2

(***************************************************************************)
(* Exit codes (EXIT_CODES).                                                *)
(***************************************************************************)
SUCCESS == 0
ASSOCIATION_INVALID == 1
OBJECT_NOT_FOUND == 2
API_ERROR == 3

(***************************************************************************)
(* Optional values.                                                        *)
(***************************************************************************)
None == <<>>
Some(x) == <<x>>
IsSome(o) == Len(o) > 0
Get(o) == o[1]

(***************************************************************************)
(* JavaScript string primitives.                                           *)
(***************************************************************************)
UpperAlpha == <<"A", "B", "C", "D", "E", "F", "G", "H", "I", "J", "K", "L", "M", "N", "O", "P", "Q", "R", "S", "T", "U", "V", "W", "X", "Y", "Z">>
LowerAlpha == <<"a", "b", "c", "d", "e", "f", "g", "h", "i", "j", "k", "l", "m", "n", "o", "p", "q", "r", "s", "t", "u", "v", "w", "x", "y", "z">>

\* the lower-case letter of each upper-case letter
lowerCaseOf ==
  [c \in {UpperAlpha[i] : i \in DOMAIN UpperAlpha} |->
     LowerAlpha[CHOOSE i \in DOMAIN UpperAlpha : UpperAlpha[i] = c]]

toLowerCaseChar(c) == IF c \in DOMAIN lowerCaseOf THEN lowerCaseOf[c] ELSE c

\* String.prototype.toLowerCase
toLowerCase(s) == [i \in 1..Len(s) |-> toLowerCaseChar(s[i])]

\* String.prototype.includes
includes(s, sub) ==
  \E i \in 0..(Len(s) - Len(sub)) : SubSeq(s, i + 1, i + Len(sub)) = sub

\* String.prototype.startsWith
startsWith(s, prefix) ==
  /\ Len(s) >= Len(prefix)
  /\ SubSeq(s, 1, Len(prefix)) = prefix

\* a variant that returns the last element satisfying the predicate
find_Last(arr, hits) ==
  IF hits # {}
  THEN Some(arr[CHOOSE i \in hits : \A j \in hits : i >= j])
  ELSE None

\* Array.prototype.find, given the indices of the elements that satisfy the
\* predicate: the first such element, or undefined
find(arr, hits) ==
  IF hits # {}
  THEN Some(arr[CHOOSE i \in hits : \A j \in hits : i <= j])
  ELSE None

(***************************************************************************)
(* Strings used by the program and by the scenarios.                       *)
(***************************************************************************)
s_empty == <<>>
s_deals == <<"d", "e", "a", "l", "s">>
s_dealsx == <<"d", "e", "a", "l", "s", "x">>
s_p_cars == <<"p", "_", "c", "a", "r", "s">>
s_Deal == <<"D", "e", "a", "l">>
s_Deals == <<"D", "e", "a", "l", "s">>
s_Offers == <<"O", "f", "f", "e", "r", "s">>
s_offers == <<"o", "f", "f", "e", "r", "s">>
s_Car == <<"C", "a", "r">>
s_Cars == <<"C", "a", "r", "s">>
s_deal == <<"d", "e", "a", "l">>
s_car == <<"c", "a", "r">>
s_contacts == <<"c", "o", "n", "t", "a", "c", "t", "s">>
s_Primary == <<"P", "r", "i", "m", "a", "r", "y">>
s_0_3 == <<"0", "-", "3">>
s_2_1 == <<"2", "-", "1">>
s_2_2 == <<"2", "-", "2">>
s_2_ == <<"2", "-">>
s_p == <<"p">>

standardObjects ==
  << <<"c", "o", "n", "t", "a", "c", "t", "s">>,
     <<"c", "o", "m", "p", "a", "n", "i", "e", "s">>,
     <<"d", "e", "a", "l", "s">>,
     <<"t", "i", "c", "k", "e", "t", "s">>,
     <<"p", "r", "o", "d", "u", "c", "t", "s">>,
     <<"l", "i", "n", "e", "_", "i", "t", "e", "m", "s">>,
     <<"q", "u", "o", "t", "e", "s">>,
     <<"c", "a", "l", "l", "s">>,
     <<"e", "m", "a", "i", "l", "s">>,
     <<"m", "e", "e", "t", "i", "n", "g", "s">>,
     <<"n", "o", "t", "e", "s">>,
     <<"t", "a", "s", "k", "s">>,
     <<"c", "o", "m", "m", "u", "n", "i", "c", "a", "t", "i", "o", "n", "s">>,
     <<"p", "o", "s", "t", "a", "l", "_", "m", "a", "i", "l">>,
     <<"m", "a", "r", "k", "e", "t", "i", "n", "g", "_", "e", "v", "e", "n", "t", "s">>,
     <<"f", "e", "e", "d", "b", "a", "c", "k", "_", "s", "u", "b", "m", "i", "s", "s", "i", "o", "n", "s">>,
     <<"g", "o", "a", "l", "s">>,
     <<"i", "n", "v", "o", "i", "c", "e", "s">>,
     <<"s", "u", "b", "s", "c", "r", "i", "p", "t", "i", "o", "n", "s">>,
     <<"t", "a", "x", "e", "s">>,
     <<"d", "i", "s", "c", "o", "u", "n", "t", "s">>,
     <<"f", "e", "e", "s">> >>

(***************************************************************************)
(* The gateway's data: schemas (HubSpotSchema), association definitions    *)
(* (AssociationDefinition) and the answers it can give.                    *)
(***************************************************************************)
\* the id every schema of the pool carries
s_id == <<"7">>

\* a schema without display property, required properties, creation date or
\* associations, and not archived; the gateway sends no `properties`
Schema(name, singular, plural, metaType, objectTypeId, fullyQualifiedName) ==
  [id |-> s_id,
   name |-> name,
   labels |-> [singular |-> singular, plural |-> plural],
   requiredProperties |-> <<>>,
   primaryDisplayProperty |-> None,
   archived |-> FALSE,
   metaType |-> metaType,
   createdAt |-> None,
   objectTypeId |-> objectTypeId,
   fullyQualifiedName |-> fullyQualifiedName,
   associations |-> None]

\* the standard object "deals"
schemaDeals ==
  Schema(s_deals, s_Deal, s_Deals, "STANDARD", Some(s_0_3), None)
\* a custom object whose name contains "deals", whose label is "Deals" and
\* whose plural label, "Offers", is no part of its name
schemaDealsx ==
  Schema(s_dealsx, s_Deals, s_Offers, "PORTAL_SPECIFIC", Some(s_2_2), None)
\* a custom object known to its users as "Car"
schemaCars ==
  Schema(s_p_cars, s_Car, s_Cars, "PORTAL_SPECIFIC", Some(s_2_1), Some(s_p_cars))

SchemaPool == {schemaDeals, schemaDealsx, schemaCars}

\* the directories the gateway may hold: names are unique within a portal
Directories ==
  UNION {{d \in [1..n -> SchemaPool] :
            \A i, j \in 1..n : d[i].name = d[j].name => i = j} :
         n \in 0..MaxSchemas}

\* what a user types as <objectA> and <objectB>
Inputs == {s_deals, s_deal, s_Deal, s_car, s_offers, s_contacts, s_empty}

AssociationDefinition(associationTypeId, name) ==
  [associationTypeId |-> associationTypeId,
   associationCategory |-> "HUBSPOT_DEFINED",
   name |-> name]

DefPool ==
  {AssociationDefinition(1, Some(s_Primary)),
   AssociationDefinition(2, None),
   AssociationDefinition(3, Some(s_empty))}

\* the non-empty lists of definitions a defined association answers with
DefLists == UNION {[1..n -> DefPool] : n \in 1..MaxDefs}

\* the directed pairs of object types between which the portal defines
\* associations: at most one direction of one pair
GatewayTables ==
  {{}, {<<s_deals, s_p_cars>>}, {<<s_p_cars, s_deals>>}, {<<s_contacts, s_deals>>}}

\* CommandOptions without --filter, --properties and --verify
Options(json, quiet, verbose) ==
  [json |-> json, quiet |-> quiet, verbose |-> verbose,
   filter |-> None, properties |-> FALSE, verify |-> FALSE]

\* the options of `verify`: formatVerifyOutput ignores quiet and verbose
OptionSets ==
  {Options(FALSE, FALSE, FALSE),
   Options(TRUE, FALSE, FALSE),
   Options(FALSE, TRUE, TRUE)}

\* the command lines: `verify <A> <B>`, `associations <A> <B> [--verify]`,
\* `object <type> [--properties]`, `schemas [--filter deal]`, `custom`
CommandLines ==
  {[command |-> "verify", objectA |-> a, objectB |-> b, options |-> o] :
     a \in Inputs, b \in Inputs, o \in OptionSets}
  \cup
  {[command |-> "associations", objectA |-> a, objectB |-> b, options |-> o] :
     a \in Inputs, b \in Inputs,
     o \in OptionSets \cup {[Options(FALSE, FALSE, FALSE) EXCEPT !.verify = TRUE]}}
  \cup
  {[command |-> "object", objectA |-> a, objectB |-> s_empty, options |-> o] :
     a \in Inputs,
     o \in OptionSets \cup {[Options(TRUE, FALSE, FALSE) EXCEPT !.properties = TRUE]}}
  \cup
  {[command |-> "schemas", objectA |-> s_empty, objectB |-> s_empty,
    options |-> o] :
     o \in OptionSets \cup {[Options(FALSE, FALSE, FALSE) EXCEPT !.filter = Some(s_deal)]}}
  \cup
  {[command |-> "custom", objectA |-> s_empty, objectB |-> s_empty,
    options |-> o] : o \in OptionSets}

\* HTTP statuses of the answers of GET /crm/v3/objects/{name}?limit=1
ProbeStatuses == {200, 204, 403, 404, 500}
\* HTTP error statuses of the other requests
ErrorStatuses == {401, 500}

\* the values of HUBSPOT_ACCESS_TOKEN: unset, empty, set
s_token == <<"t", "o", "k">>
TokenPool == {None, Some(s_empty), Some(s_token)}

\* an answer of the gateway: an HTTP response, or none at all
HttpResponse(status, data) == [response |-> TRUE, status |-> status, data |-> data]
NoResponse == [response |-> FALSE, status |-> 0, data |-> None]

\* the answers to GET /crm/v3/schemas
SchemasAnswers(dir) ==
  {HttpResponse(200, Some([results |-> dir]))}
    \cup {HttpResponse(st, None) : st \in ErrorStatuses}
    \cup {NoResponse}

\* an error text that quotes a number
s_upstream404 == <<"u", "p", "s", "t", "r", "e", "a", "m", " ", "4", "0", "4">>

\* the answers to GET /crm/v3/schemas/{objectType}: the schema of that name,
\* or 404 when the directory has none, or a failure
SchemaAnswers(dir, objectType) ==
  (IF \E i \in DOMAIN dir : dir[i].name = objectType
   THEN {HttpResponse(200, Some(dir[i])) :
           i \in {j \in DOMAIN dir : dir[j].name = objectType}}
   ELSE {HttpResponse(404, None)})
    \cup {HttpResponse(st, None) : st \in ErrorStatuses}
    \cup {HttpResponse(500, Some([message |-> s_upstream404]))}
    \cup {NoResponse}

\* the answers to GET /crm/v3/objects/{name}?limit=1
ProbeAnswers ==
  {HttpResponse(st, None) : st \in ProbeStatuses} \cup {NoResponse}

\* the answers to GET /crm/v4/associations/{from}/{to}/types: the definitions of
\* a defined direction, an empty list for any other, or a failure
AssociationAnswers(table, from, to) ==
  (IF <<from, to>> \in table
   THEN {HttpResponse(200, Some([results |-> defs])) : defs \in DefLists}
   ELSE {HttpResponse(200, Some([results |-> <<>>]))})
    \cup {HttpResponse(st, None) : st \in ErrorStatuses}
    \cup {NoResponse}

VARIABLES
  \* the gateway and the environment of the process
  directory, gwAssoc, accessToken,
  \* the command and its arguments
  command, objectA, objectB, options,
  \* the position in the command, the requests it has sent and awaits, and
  \* the locals of verifyAssociationsCommand
  pc, outstanding, schemas, schemaA, schemaB, probeResultA, probeResultB,
  objectAExists, objectBExists,
  verifiedViaA, verifiedViaB, internalNameA, internalNameB,
  associationResult, associationExists, cardinality, caught,
  \* what the run did: the gateway calls, the output, the exit code
  calls, stdout, stderr, exitCode

env == <<directory, gwAssoc, accessToken, command, objectA, objectB, options>>
locals ==
  <<outstanding, schemas, schemaA, schemaB, probeResultA, probeResultB, objectAExists,
    objectBExists, verifiedViaA,
    verifiedViaB, internalNameA, internalNameB, associationResult,
    associationExists, cardinality, caught>>
effects == <<calls, stdout, stderr, exitCode>>
vars == <<env, pc, locals, effects>>


(***************************************************************************)
(* Completion of a call: it returns a value or throws an error message.    *)
(***************************************************************************)
Return(v) == [threw |-> FALSE, value |-> Some(v), message |-> None]
Throw(m) == [threw |-> TRUE, value |-> None, message |-> Some(m)]

\* axios resolves a response whose status is 2xx and rejects any other
AxiosResolves(resp) == resp.response /\ resp.status >= 200 /\ resp.status < 300

\* the reason phrases of the statuses the gateway answers with
statusText(status) ==
  IF status = 401 THEN <<"U", "n", "a", "u", "t", "h", "o", "r", "i", "z", "e", "d">>
  ELSE IF status = 403 THEN <<"F", "o", "r", "b", "i", "d", "d", "e", "n">>
  ELSE IF status = 404 THEN <<"N", "o", "t", " ", "F", "o", "u", "n", "d">>
  ELSE <<"I", "n", "t", "e", "r", "n", "a", "l", " ", "S", "e", "r", "v", "e", "r", " ", "E", "r", "r", "o", "r">>

\* `error.response.data?.message || error.response.statusText`
errorText(resp) ==
  IF /\ IsSome(resp.data)
     /\ "message" \in DOMAIN Get(resp.data)
     /\ Get(resp.data).message # s_empty
  THEN Get(resp.data).message
  ELSE statusText(resp.status)

\* `HubSpot API Error (${status}): ${text}`
ApiErrorMessage(resp) == <<"HubSpot API Error", resp.status, errorText(resp)>>
NetworkErrorMessage == <<"Network Error">>

\* the decimal digits of a three-digit status
digits(n) ==
  LET digit == <<"0", "1", "2", "3", "4", "5", "6", "7", "8", "9">>
  IN  <<digit[(n \div 100) + 1], digit[((n \div 10) % 10) + 1], digit[(n % 10) + 1]>>

\* the characters of error.message
messageString(message) ==
  IF message[1] = "HubSpot API Error"
  THEN <<"H", "u", "b", "S", "p", "o", "t", " ", "A", "P", "I", " ", "E", "r", "r", "o", "r", " ", "(">> \o digits(message[2]) \o <<")", ":", " ">> \o message[3]
  ELSE IF message[1] = "Network Error"
  THEN <<"N", "e", "t", "w", "o", "r", "k", " ", "E", "r", "r", "o", "r">>
  ELSE <<"H", "U", "B", "S", "P", "O", "T", "_", "A", "C", "C", "E", "S", "S", "_", "T", "O", "K", "E", "N", " ", "i", "s", " ", "r", "e", "q", "u", "i", "r", "e", "d">>

\* a request of the client, as the gateway sees it
Request(method, endpoint, args) ==
  [method |-> method, endpoint |-> endpoint, args |-> args]

\* a variant that looks the object up with a search request
ProbeRequest_Search(name) ==
  Request("POST", "objectsSearch", <<name>>) @@ [params |-> [limit |-> 1]]

\* `this.client.get(`/crm/v3/objects/${name}`, { params: { limit: 1 } })`
ProbeRequest(name) ==
  Request("GET", "objects", <<name>>) @@ [params |-> [limit |-> 1]]

(***************************************************************************)
(* HubSpotClient.                                                          *)
(***************************************************************************)
\* `!accessToken`: undefined and the empty string are falsy
\* a variant that takes an empty credential for a credential
TokenMissing_UnsetOnly(token) == ~IsSome(token)

TokenMissing(token) == ~IsSome(token) \/ Get(token) = s_empty

HubSpotClient_constructor(token) ==
  IF TokenMissing(token)
  THEN Throw(<<"HUBSPOT_ACCESS_TOKEN is required">>)
  ELSE Return(token)

\* a variant that takes every answer that axios resolves as existence
objectExists_AnyResolved(resp) ==
  IF AxiosResolves(resp)
  THEN Return([exists |-> TRUE, verifiedVia |-> "objects", error |-> None])
  ELSE IF resp.response
       THEN IF resp.status = 404
            THEN Return([exists |-> FALSE, verifiedVia |-> "objects",
                         error |-> None])
            ELSE IF resp.status = 403
                 THEN Return([exists |-> FALSE, verifiedVia |-> "objects",
                              error |-> Some(<<"Insufficient permissions (403)">>)])
                 ELSE Return([exists |-> FALSE, verifiedVia |-> "objects",
                              error |-> Some(<<"API Error", resp.status>>)])
       ELSE Throw(NetworkErrorMessage)

objectExists(resp) ==
  IF AxiosResolves(resp)
  THEN IF resp.status = 200
       THEN Return([exists |-> TRUE, verifiedVia |-> "objects", error |-> None])
       ELSE Return([exists |-> FALSE, verifiedVia |-> "objects", error |-> None])
  ELSE IF resp.response
       THEN IF resp.status = 404
            THEN Return([exists |-> FALSE, verifiedVia |-> "objects",
                         error |-> None])
            ELSE IF resp.status = 403
                 THEN Return([exists |-> FALSE, verifiedVia |-> "objects",
                              error |-> Some(<<"Insufficient permissions (403)">>)])
                 ELSE Return([exists |-> FALSE, verifiedVia |-> "objects",
                              error |-> Some(<<"API Error", resp.status>>)])
       ELSE Throw(NetworkErrorMessage)

\* a variant that answers a failed fetch with an empty directory
getSchemas_EmptyOnError(resp) ==
  IF AxiosResolves(resp) THEN Return(Get(resp.data).results) ELSE Return(<<>>)

getSchemas(resp) ==
  IF AxiosResolves(resp)
  THEN Return(Get(resp.data).results)
  ELSE IF resp.response
       THEN Throw(ApiErrorMessage(resp))
       ELSE Throw(NetworkErrorMessage)

getSchema(resp) ==
  IF AxiosResolves(resp)
  THEN Return(Get(resp.data))
  ELSE IF resp.response
       THEN Throw(ApiErrorMessage(resp))
       ELSE Throw(NetworkErrorMessage)

\* a variant that answers a failed request with an empty list
getAssociationTypes_EmptyOnError(resp) ==
  IF AxiosResolves(resp)
  THEN Return(Get(resp.data))
  ELSE Return([results |-> <<>>])

getAssociationTypes(resp) ==
  IF AxiosResolves(resp)
  THEN Return(Get(resp.data))
  ELSE IF resp.response
       THEN Throw(ApiErrorMessage(resp))
       ELSE Throw(NetworkErrorMessage)

\* a variant that lets the error of a request without response escape
verifyAssociationPath_Rethrow(fromObjectType, toObjectType, resp) ==
  LET path == <<"/crm/v4/associations", fromObjectType, toObjectType, "types">>
      got == getAssociationTypes(resp)
  IN  IF ~got.threw
      THEN Return([valid |-> TRUE, path |-> path,
                   associationTypes |-> got.value, error |-> None])
      ELSE IF resp.response
           THEN Return([valid |-> FALSE, path |-> path,
                        associationTypes |-> None, error |-> got.message])
           ELSE Throw(Get(got.message))

verifyAssociationPath(fromObjectType, toObjectType, resp) ==
  LET path == <<"/crm/v4/associations", fromObjectType, toObjectType, "types">>
      got == getAssociationTypes(resp)
  IN  IF ~got.threw
      THEN Return([valid |-> TRUE, path |-> path,
                   associationTypes |-> got.value, error |-> None])
      ELSE Return([valid |-> FALSE, path |-> path,
                   associationTypes |-> None, error |-> got.message])

(***************************************************************************)
(* utils: isPortalScoped and formatVerifyOutput.                           *)
(***************************************************************************)
\* a variant without the fullyQualifiedName rule
isPortalScoped_NoQualifiedName(schema) ==
  IF schema.metaType = "PORTAL_SPECIFIC" THEN TRUE
  ELSE IF /\ IsSome(schema.objectTypeId)
          /\ Get(schema.objectTypeId) # s_empty
          /\ startsWith(Get(schema.objectTypeId), s_2_) THEN TRUE
  ELSE ~(\E i \in DOMAIN standardObjects : standardObjects[i] = schema.name)

isPortalScoped(schema) ==
  IF schema.metaType = "PORTAL_SPECIFIC" THEN TRUE
  ELSE IF /\ IsSome(schema.objectTypeId)
          /\ Get(schema.objectTypeId) # s_empty
          /\ startsWith(Get(schema.objectTypeId), s_2_) THEN TRUE
  ELSE IF /\ IsSome(schema.fullyQualifiedName)
          /\ Get(schema.fullyQualifiedName) # s_empty
          /\ startsWith(Get(schema.fullyQualifiedName), s_p) THEN TRUE
  ELSE ~(\E i \in DOMAIN standardObjects : standardObjects[i] = schema.name)

\* lines pushed only under a condition
When(cond, lines) == IF cond THEN lines ELSE <<>>

sourceText(verifiedVia) ==
  IF verifiedVia = "schemas" THEN "schemas API" ELSE "objects API"

formatVerifyOutput(data) ==
  LET bothExist == data.objectAExists /\ data.objectBExists
      warnings ==
        When(data.labelDiffersA,
             << <<"UI label differs from API object name",
                  data.objectA, data.internalNameA>> >>)
        \o When(data.labelDiffersB,
                << <<"UI label differs from API object name",
                     data.objectB, data.internalNameB>> >>)
        \o When(data.isAPortalScoped \/ data.isBPortalScoped,
                << <<"Single PUT association endpoint may return 500 in sandbox">> >>)
  IN  << <<"">> >>
      \o (IF data.objectAExists
          THEN << <<"Object exists", data.internalNameA,
                    sourceText(data.verifiedViaA)>> >>
          ELSE << <<"Object not found", data.objectA>> >>)
      \o (IF data.objectBExists
          THEN << <<"Object exists", data.internalNameB,
                    sourceText(data.verifiedViaB)>> >>
          ELSE << <<"Object not found", data.objectB>> >>)
      \o When(bothExist /\ data.associationExists,
              << <<"">>, <<"Association definition found">> >>)
      \o When(bothExist /\ ~data.associationExists,
              << <<"No association defined between", data.objectA, data.objectB>> >>)
      \o << <<"">> >>
      \o (IF bothExist /\ data.associationExists
          THEN << <<"Recommended API path:">>,
                  <<"POST /crm/v4/associations", data.internalNameA,
                    data.internalNameB, "batch/create">>,
                  <<"">> >>
               \o When(Len(warnings) > 0,
                       << <<"Warnings:">> >> \o warnings \o << <<"">> >>)
          ELSE << <<"Result:">> >>
               \o (IF ~data.objectAExists \/ ~data.objectBExists
                   THEN << <<"Object not found">> >>
                   ELSE << <<"Association is NOT supported via API">> >>)
               \o << <<"">> >>)
      \o << <<"No write operations were performed">>, <<"">> >>

\* `schema.objectTypeId || schema.id`
objectTypeIdOf(schema) ==
  IF IsSome(schema.objectTypeId) /\ Get(schema.objectTypeId) # s_empty
  THEN Get(schema.objectTypeId)
  ELSE schema.id

\* the lines of every part, in order
RECURSIVE joinLines(_)
joinLines(parts) ==
  IF parts = <<>> THEN <<>> ELSE Head(parts) \o joinLines(Tail(parts))

formatSchema(schema, verbose) ==
  << <<"badge", IF isPortalScoped(schema) THEN "[CUSTOM]" ELSE "[STANDARD]",
       schema.labels.singular, schema.labels.plural>>,
     <<"Internal Name:", schema.name>>,
     <<"Object Type ID:", objectTypeIdOf(schema)>> >>
  \o When(IsSome(schema.fullyQualifiedName)
            /\ Get(schema.fullyQualifiedName) # s_empty,
          << <<"Fully Qualified:", schema.fullyQualifiedName>> >>)
  \o << <<"Meta Type:", schema.metaType>> >>
  \o When(verbose /\ IsSome(schema.primaryDisplayProperty)
            /\ Get(schema.primaryDisplayProperty) # s_empty,
          << <<"Primary Display:", schema.primaryDisplayProperty>> >>)
  \o When(verbose /\ Len(schema.requiredProperties) > 0,
          << <<"Required Properties:", schema.requiredProperties>> >>)
  \o When(verbose /\ IsSome(schema.createdAt) /\ Get(schema.createdAt) # s_empty,
          << <<"Created:", schema.createdAt>> >>)
  \o When(verbose /\ schema.archived, << <<"Status: ARCHIVED">> >>)

\* the collation order of the characters of object names
collation ==
  <<"_", "-", "0", "1", "2", "3", "4", "5", "6", "7", "8", "9">> \o LowerAlpha

collationRank(c) ==
  CHOOSE i \in DOMAIN collation : collation[i] = toLowerCaseChar(c)

\* a.localeCompare(b) on names made of the characters above
RECURSIVE localeCompare(_, _)
localeCompare(a, b) ==
  IF a = <<>> /\ b = <<>> THEN 0
  ELSE IF a = <<>> THEN -1
  ELSE IF b = <<>> THEN 1
  ELSE IF collationRank(Head(a)) < collationRank(Head(b)) THEN -1
  ELSE IF collationRank(Head(a)) > collationRank(Head(b)) THEN 1
  ELSE localeCompare(Tail(a), Tail(b))

\* the comparator of formatSchemasSimple: standard objects first, then by name
compareSchemas(a, b) ==
  IF isPortalScoped(a) # isPortalScoped(b)
  THEN IF isPortalScoped(a) THEN 1 ELSE -1
  ELSE localeCompare(a.name, b.name)

\* `[...schemas].sort(compare)`: a stable sort
RECURSIVE sortSchemas(_)
sortSchemas(list) ==
  IF list = <<>> THEN <<>>
  ELSE LET x == list[Len(list)]
           sorted == sortSchemas(SubSeq(list, 1, Len(list) - 1))
           after == {i \in DOMAIN sorted : compareSchemas(sorted[i], x) > 0}
           at == IF after = {} THEN Len(sorted) + 1
                 ELSE CHOOSE i \in after : \A j \in after : i <= j
       IN  SubSeq(sorted, 1, at - 1) \o <<x>> \o SubSeq(sorted, at, Len(sorted))

formatSchemasSimple(schemaList, quiet) ==
  LET line(schema) ==
        << <<"object", schema.name, objectTypeIdOf(schema),
             IF isPortalScoped(schema) THEN "portal-scoped" ELSE "">> >>
  IN  When(~quiet, << <<"">>, <<"Found CRM objects", Len(schemaList)>>, <<"">> >>)
      \o joinLines([i \in DOMAIN schemaList |-> line(sortSchemas(schemaList)[i])])
      \o << <<"">> >>

formatObjectDetails(schema, quiet, verbose) ==
  LET line(assoc) ==
        << <<"-", IF IsSome(assoc.name) /\ Get(assoc.name) # s_empty
                  THEN Get(assoc.name) ELSE assoc.toObjectTypeId>> >>
  IN  << <<"">>,
         <<"Object:", schema.labels.singular>>,
         <<"Internal name:", schema.name>>,
         <<"ObjectTypeId:", objectTypeIdOf(schema)>>,
         <<"Scope:", IF isPortalScoped(schema) THEN "portal-scoped" ELSE "standard">> >>
      \o When(IsSome(schema.associations) /\ Len(Get(schema.associations)) > 0,
              << <<"">>, <<"Associations:">> >>
              \o joinLines([i \in DOMAIN Get(schema.associations) |->
                            line(Get(schema.associations)[i])]))
      \o When(verbose,
              << <<"">>, <<"API Paths:">>,
                 <<"Objects: /crm/v3/objects", schema.name>>,
                 <<"Associations: /crm/v4/associations", schema.name,
                   "{toObjectType}", "batch/create">> >>)
      \o << <<"">> >>

formatAssociationsList(a, b, result, quiet, verbose) ==
  LET line(assoc) ==
        << <<"- ID:", assoc.associationTypeId>>,
           <<"Category:", assoc.associationCategory>>,
           <<"Label:", IF IsSome(assoc.name) /\ Get(assoc.name) # s_empty
                       THEN Get(assoc.name) ELSE "(default)">>,
           <<"">> >>
  IN  << <<"">>, <<"Associations between", a, b>>, <<"">> >>
      \o (IF ~result.valid
          THEN << <<"No association defined between these objects">>, <<"">> >>
               \o When(~quiet,
                       << <<"Troubleshooting:">>,
                          <<"1. Verify object type names with: hubspot-crm schemas">>,
                          <<"2. Check if both objects exist in your portal">>,
                          <<"3. Ensure association definition exists between these object types">>,
                          <<"">> >>)
          ELSE (IF IsSome(result.associationTypes)
                   /\ Len(Get(result.associationTypes).results) > 0
                THEN joinLines([i \in DOMAIN Get(result.associationTypes).results |->
                            line(Get(result.associationTypes).results[i])])
                ELSE << <<"No association types defined.">>, <<"">> >>)
               \o When(verbose, << <<"API Path:">>, result.path, <<"">> >>))

(***************************************************************************)
(* commands: findSchemaByNameOrLabel and verifyAssociationsCommand.        *)
(***************************************************************************)
\* a variant that takes the first schema matching by any of the three rules
findSchemaByNameOrLabel_SinglePass(schemaList, nameOrLabel) ==
  LET lower == toLowerCase(nameOrLabel)
      any(s) == \/ toLowerCase(s.name) = lower
                \/ toLowerCase(s.labels.singular) = lower
                \/ toLowerCase(s.labels.plural) = lower
                \/ includes(toLowerCase(s.name), lower)
  IN  find(schemaList, {i \in DOMAIN schemaList : any(schemaList[i])})

\* a variant without the partial name match
findSchemaByNameOrLabel_NoPartial(schemaList, nameOrLabel) ==
  LET lower == toLowerCase(nameOrLabel)
      exactName(s) == toLowerCase(s.name) = lower
      label(s) == \/ toLowerCase(s.labels.singular) = lower
                  \/ toLowerCase(s.labels.plural) = lower
      byName ==
        find(schemaList, {i \in DOMAIN schemaList : exactName(schemaList[i])})
  IN  IF IsSome(byName) THEN byName
      ELSE find(schemaList, {i \in DOMAIN schemaList : label(schemaList[i])})

findSchemaByNameOrLabel(schemaList, nameOrLabel) ==
  LET lower == toLowerCase(nameOrLabel)
      exactName(s) == toLowerCase(s.name) = lower
      label(s) == \/ toLowerCase(s.labels.singular) = lower
                  \/ toLowerCase(s.labels.plural) = lower
      partialName(s) == includes(toLowerCase(s.name), lower)
      byName ==
        find(schemaList, {i \in DOMAIN schemaList : exactName(schemaList[i])})
      byLabel ==
        find(schemaList, {i \in DOMAIN schemaList : label(schemaList[i])})
  IN  IF IsSome(byName) THEN byName
      ELSE IF IsSome(byLabel) THEN byLabel
      ELSE find(schemaList,
                {i \in DOMAIN schemaList : partialName(schemaList[i])})

\* a variant that probes whatever the directory tier found
NeedsProbe_Always(foundInSchemas) == TRUE

\* `if (!objectAExists)`: the probe tier runs when the directory tier found nothing
NeedsProbe(foundInSchemas) == ~foundInSchemas

\* Steps 2 and 3: the outcomes of resolving one identifier against the fetched
\* directory and, failing that, the objects endpoint
ResolutionOutcomes(schemaList, object) ==
  LET schema == findSchemaByNameOrLabel(schemaList, object)
      probe(resp) == objectExists(resp)
      call(resp) == [req |-> ProbeRequest(object), resp |-> resp]
  IN  IF NeedsProbe(IsSome(schema))
      THEN {IF probe(resp).threw
            THEN [schema |-> schema, exists |-> IsSome(schema),
                  verifiedVia |-> "schemas", call |-> Some(call(resp)),
                  probeResult |-> None,
                  threw |-> TRUE, message |-> probe(resp).message]
            ELSE [schema |-> schema, exists |-> Get(probe(resp).value).exists,
                  verifiedVia |-> "objects", call |-> Some(call(resp)),
                  probeResult |-> probe(resp).value,
                  threw |-> FALSE, message |-> None] :
            resp \in ProbeAnswers}
      ELSE {[schema |-> schema, exists |-> IsSome(schema),
             verifiedVia |-> "schemas", call |-> None,
             probeResult |-> None,
             threw |-> FALSE, message |-> None]}

\* a variant that keeps the input as the internal name
internalName_Input(schema, object) == object

\* `schemaA?.name || objectA`
internalName(schema, object) ==
  IF IsSome(schema) /\ Get(schema).name # s_empty
  THEN Get(schema).name
  ELSE object

\* a variant whose gate opens when either object exists
GateOpen_Either(aExists, bExists) == aExists \/ bExists

\* `if (objectAExists && objectBExists)`
GateOpen(aExists, bExists) == aExists /\ bExists

\* a variant that queries the reverse direction
AssociationArgs_Swapped(nameA, nameB) == <<nameB, nameA>>

\* the arguments of client.verifyAssociationPath(internalNameA, internalNameB)
AssociationArgs(nameA, nameB) == <<nameA, nameB>>

\* `associationResult.valid && (results?.length ?? 0) > 0`
associationDefined(result) ==
  /\ result.valid
  /\ IsSome(result.associationTypes)
  /\ Len(Get(result.associationTypes).results) > 0

\* a variant that takes the name of the last definition
cardinalityOf_LastDefinition(result) ==
  IF associationDefined(result)
  THEN LET results == Get(result.associationTypes).results
           lastAssoc == results[Len(results)]
       IN  IF IsSome(lastAssoc.name) /\ Get(lastAssoc.name) # s_empty
           THEN Get(lastAssoc.name)
           ELSE s_empty
  ELSE s_empty

\* the name of the first definition when it is truthy, else ''
cardinalityOf(result) ==
  IF associationDefined(result)
  THEN LET firstAssoc == Get(result.associationTypes).results[1]
       IN  IF IsSome(firstAssoc.name) /\ Get(firstAssoc.name) # s_empty
           THEN Get(firstAssoc.name)
           ELSE s_empty
  ELSE s_empty

\* `associationResult?.associationTypes?.results || []`
typesOf(result) ==
  IF IsSome(result) /\ IsSome(Get(result).associationTypes)
  THEN Get(Get(result).associationTypes).results
  ELSE <<>>

\* `schemaA && objectA !== schemaA.name &&
\*    objectA === schemaA.labels.singular.toLowerCase()`
labelDiffers(schema, object) ==
  /\ IsSome(schema)
  /\ object # Get(schema).name
  /\ object = toLowerCase(Get(schema).labels.singular)

portalScoped(schema) == IF IsSome(schema) THEN isPortalScoped(Get(schema)) ELSE FALSE

\* a variant that recommends the path whatever the association check found
recommendedApiPath_Always(assocExists, nameA, nameB) ==
  Some(<<"POST /crm/v4/associations", nameA, nameB, "batch/create">>)

\* a variant that builds the path in the order (B, A)
recommendedApiPath_Swapped(exists, nameA, nameB) ==
  IF exists
  THEN Some(<<"POST /crm/v4/associations", nameB, nameA, "batch/create">>)
  ELSE None

\* `associationExists ? `POST /crm/v4/associations/${A}/${B}/batch/create` : null`
recommendedApiPath(exists, nameA, nameB) ==
  IF exists
  THEN Some(<<"POST /crm/v4/associations", nameA, nameB, "batch/create">>)
  ELSE None

\* the object written to stdout under --json
jsonVerdict ==
  [kind |-> "json",
   objectA |-> [input |-> objectA, internalName |-> internalNameA,
                exists |-> objectAExists, verifiedVia |-> verifiedViaA,
                isPortalScoped |-> portalScoped(schemaA)],
   objectB |-> [input |-> objectB, internalName |-> internalNameB,
                exists |-> objectBExists, verifiedVia |-> verifiedViaB,
                isPortalScoped |-> portalScoped(schemaB)],
   association |-> [defined |-> associationExists,
                    cardinality |-> IF cardinality # s_empty
                                    THEN Some(cardinality) ELSE None,
                    types |-> typesOf(associationResult)],
   recommendedApiPath |->
     recommendedApiPath(associationExists, internalNameA, internalNameB),
   valid |-> objectAExists /\ objectBExists /\ associationExists,
   writeOperationsPerformed |-> FALSE]

\* the text written to stdout otherwise
textVerdict ==
  [kind |-> "text",
   lines |-> formatVerifyOutput(
     [objectA |-> objectA, objectB |-> objectB,
      internalNameA |-> internalNameA, internalNameB |-> internalNameB,
      objectAExists |-> objectAExists, objectBExists |-> objectBExists,
      verifiedViaA |-> verifiedViaA, verifiedViaB |-> verifiedViaB,
      associationExists |-> associationExists, cardinality |-> cardinality,
      isAPortalScoped |-> portalScoped(schemaA),
      isBPortalScoped |-> portalScoped(schemaB),
      labelDiffersA |-> labelDiffers(schemaA, objectA),
      labelDiffersB |-> labelDiffers(schemaB, objectB),
      associationTypes |-> typesOf(associationResult)])]

\* the process.exit calls after the JSON verdict; returning is exit code 0
jsonExitCode(aExists, bExists, assocExists) ==
  IF ~aExists \/ ~bExists THEN OBJECT_NOT_FOUND
  ELSE IF ~assocExists THEN ASSOCIATION_INVALID
  ELSE SUCCESS

\* a variant that tests the association before the objects
textExitCode_AssociationFirst(aExists, bExists, assocExists) ==
  IF ~assocExists THEN ASSOCIATION_INVALID
  ELSE IF ~aExists \/ ~bExists THEN OBJECT_NOT_FOUND
  ELSE SUCCESS

\* the process.exit calls after the text verdict
textExitCode(aExists, bExists, assocExists) ==
  IF ~aExists \/ ~bExists THEN OBJECT_NOT_FOUND
  ELSE IF ~assocExists THEN ASSOCIATION_INVALID
  ELSE SUCCESS

(***************************************************************************)
(* The run.                                                                *)
(***************************************************************************)
Init ==
  /\ directory \in Directories
  /\ gwAssoc \in GatewayTables
  /\ accessToken \in TokenPool
  /\ \E line \in CommandLines :
       /\ command = line.command
       /\ objectA = line.objectA
       /\ objectB = line.objectB
       /\ options = line.options
  /\ pc = "start"
  /\ outstanding = <<>>
  /\ schemas = <<>>
  /\ schemaA = None
  /\ schemaB = None
  /\ probeResultA = None
  /\ probeResultB = None
  /\ objectAExists = FALSE
  /\ objectBExists = FALSE
  /\ verifiedViaA = "schemas"
  /\ verifiedViaB = "schemas"
  /\ internalNameA = s_empty
  /\ internalNameB = s_empty
  /\ associationResult = None
  /\ associationExists = FALSE
  /\ cardinality = s_empty
  /\ caught = None
  /\ calls = <<>>
  /\ stdout = <<>>
  /\ stderr = <<>>
  /\ exitCode = SUCCESS

\* `verify`, or `associations --verify`, which checks the credential itself
\* and then returns verifyAssociationsCommand(objectA, objectB, options)
Verifying ==
  command = "verify" \/ (command = "associations" /\ options.verify)

\* the credential check that opens the command
Start ==
  /\ pc = "start"
  /\ Verifying
  /\ IF TokenMissing(accessToken)
     THEN /\ stderr' = stderr \o
                 << <<"Error: HUBSPOT_ACCESS_TOKEN environment variable is required">>,
                    <<"Set it with: export HUBSPOT_ACCESS_TOKEN=your_token_here">> >>
          /\ exitCode' = API_ERROR
          /\ pc' = "exited"
     ELSE /\ pc' = "fetch"
          /\ UNCHANGED <<stderr, exitCode>>
  /\ UNCHANGED <<env, locals, calls, stdout>>

\* a variant that sends the probes of A and B together
AwaitedAt_Parallel(position) ==
  LET probe(object) ==
        IF NeedsProbe(IsSome(findSchemaByNameOrLabel(schemas, object)))
        THEN <<ProbeRequest(object)>> ELSE <<>>
  IN  IF position = "fetch"
      THEN IF HubSpotClient_constructor(accessToken).threw THEN <<>>
           ELSE <<Request("GET", "schemas", <<>>)>>
      ELSE IF position = "resolveA" THEN probe(objectA) \o probe(objectB)
      ELSE IF position = "resolveB" THEN <<>>
      ELSE IF position = "assoc"
      THEN <<Request("GET", "associationTypes",
                     AssociationArgs(internalNameA, internalNameB))>>
      ELSE <<>>

\* the request that the step at a position sends and awaits, if any:
\* `await client.getSchemas()`, `await client.objectExists(objectA)`,
\* `await client.objectExists(objectB)`, `await client.verifyAssociationPath(...)`
AwaitedAt(position) ==
  LET probe(object) ==
        IF NeedsProbe(IsSome(findSchemaByNameOrLabel(schemas, object)))
        THEN <<ProbeRequest(object)>> ELSE <<>>
  IN  IF position = "fetch"
      THEN IF HubSpotClient_constructor(accessToken).threw THEN <<>>
           ELSE <<Request("GET", "schemas", <<>>)>>
      ELSE IF position = "resolveA" THEN probe(objectA)
      ELSE IF position = "resolveB" THEN probe(objectB)
      ELSE IF position = "assoc"
      THEN <<Request("GET", "associationTypes",
                     AssociationArgs(internalNameA, internalNameB))>>
      ELSE <<>>

\* the step has nothing to await, or its request is on its way
Awaiting == AwaitedAt(pc) = <<>> \/ outstanding # <<>>

\* the answer of the awaited request has arrived
Answered == IF outstanding # <<>> THEN Tail(outstanding) ELSE <<>>

\* a step of verify sends its request and suspends until the answer
IssueRequest ==
  /\ pc \in {"fetch", "resolveA", "resolveB", "assoc"}
  /\ outstanding = <<>>
  /\ AwaitedAt(pc) # <<>>
  /\ outstanding' = AwaitedAt(pc)
  /\ UNCHANGED <<env, pc, schemas, schemaA, schemaB, probeResultA, probeResultB,
                 objectAExists, objectBExists, verifiedViaA, verifiedViaB,
                 internalNameA, internalNameB, associationResult,
                 associationExists, cardinality, caught, effects>>

\* Step 1: construct the client and fetch all schemas
FetchDirectory ==
  /\ pc = "fetch"
  /\ Awaiting
  /\ outstanding' = Answered
  /\ \E resp \in SchemasAnswers(directory) :
       LET client == HubSpotClient_constructor(accessToken)
           got == getSchemas(resp)
       IN  IF client.threw
           THEN /\ caught' = client.message
                /\ pc' = "catch"
                /\ UNCHANGED <<schemas, calls>>
           ELSE /\ calls' = Append(calls, [req |-> Request("GET", "schemas", <<>>),
                                           resp |-> resp])
                /\ IF got.threw
                   THEN /\ caught' = got.message
                        /\ pc' = "catch"
                        /\ UNCHANGED schemas
                   ELSE /\ schemas' = Get(got.value)
                        /\ pc' = "resolveA"
                        /\ UNCHANGED caught
  /\ UNCHANGED <<env, schemaA, schemaB, probeResultA, probeResultB,
                 objectAExists, objectBExists,
                 verifiedViaA, verifiedViaB, internalNameA, internalNameB,
                 associationResult, associationExists, cardinality,
                 stdout, stderr, exitCode>>

\* Step 2: check object A existence
ResolveA ==
  /\ pc = "resolveA"
  /\ Awaiting
  /\ outstanding' = Answered
  /\ \E o \in ResolutionOutcomes(schemas, objectA) :
       /\ schemaA' = o.schema
       /\ probeResultA' = o.probeResult
       /\ objectAExists' = o.exists
       /\ verifiedViaA' = o.verifiedVia
       /\ calls' = calls \o o.call
       /\ caught' = o.message
       /\ pc' = IF o.threw THEN "catch" ELSE "resolveB"
  /\ UNCHANGED <<env, schemas, schemaB, probeResultB, objectBExists, verifiedViaB,
                 internalNameA, internalNameB, associationResult,
                 associationExists, cardinality, stdout, stderr, exitCode>>

\* Step 3: check object B existence
ResolveB ==
  /\ pc = "resolveB"
  /\ Awaiting
  /\ outstanding' = Answered
  /\ \E o \in ResolutionOutcomes(schemas, objectB) :
       /\ schemaB' = o.schema
       /\ probeResultB' = o.probeResult
       /\ objectBExists' = o.exists
       /\ verifiedViaB' = o.verifiedVia
       /\ calls' = calls \o o.call
       /\ caught' = o.message
       /\ pc' = IF o.threw THEN "catch" ELSE "gate"
  /\ UNCHANGED <<env, schemas, schemaA, probeResultA, objectAExists, verifiedViaA,
                 internalNameA, internalNameB, associationResult,
                 associationExists, cardinality, stdout, stderr, exitCode>>

\* the internal names and the gate of step 4
Gate ==
  /\ pc = "gate"
  /\ UNCHANGED outstanding
  /\ internalNameA' = internalName(schemaA, objectA)
  /\ internalNameB' = internalName(schemaB, objectB)
  /\ associationResult' = None
  /\ associationExists' = FALSE
  /\ cardinality' = s_empty
  /\ pc' = IF GateOpen(objectAExists, objectBExists) THEN "assoc" ELSE "emit"
  /\ UNCHANGED <<env, schemas, schemaA, schemaB, probeResultA, probeResultB,
                 objectAExists, objectBExists,
                 verifiedViaA, verifiedViaB, caught, effects>>

\* Step 4: GET /crm/v4/associations/{A}/{B}/types
AssociationCheck ==
  /\ pc = "assoc"
  /\ Awaiting
  /\ outstanding' = Answered
  /\ LET args == AssociationArgs(internalNameA, internalNameB)
     IN  \E resp \in AssociationAnswers(gwAssoc, args[1], args[2]) :
           LET done == verifyAssociationPath(args[1], args[2], resp)
           IN  /\ calls' = Append(calls,
                             [req |-> Request("GET", "associationTypes", args),
                              resp |-> resp])
               /\ IF done.threw
                  THEN /\ caught' = done.message
                       /\ pc' = "catch"
                       /\ UNCHANGED <<associationResult, associationExists,
                                      cardinality>>
                  ELSE /\ associationResult' = done.value
                       /\ associationExists' = associationDefined(Get(done.value))
                       /\ cardinality' = cardinalityOf(Get(done.value))
                       /\ pc' = "emit"
                       /\ UNCHANGED caught
  /\ UNCHANGED <<env, schemas, schemaA, schemaB, probeResultA, probeResultB,
                 objectAExists, objectBExists,
                 verifiedViaA, verifiedViaB, internalNameA, internalNameB,
                 stdout, stderr, exitCode>>

\* the verdict, as JSON or as text, and the exit code
Emit ==
  /\ pc = "emit"
  /\ IF options.json
     THEN /\ stdout' = Append(stdout, jsonVerdict)
          /\ exitCode' = jsonExitCode(objectAExists, objectBExists,
                                      associationExists)
     ELSE /\ stdout' = Append(stdout, textVerdict)
          /\ exitCode' = textExitCode(objectAExists, objectBExists,
                                      associationExists)
  /\ pc' = "exited"
  /\ UNCHANGED <<env, locals, calls, stderr>>

\* a variant whose catch block starts the verification again
Catch_Retry ==
  /\ pc = "catch"
  /\ pc' = "fetch"
  /\ UNCHANGED <<env, locals, effects>>

\* the catch block of the command
Catch ==
  /\ pc = "catch"
  /\ IF options.json
     THEN /\ stdout' = Append(stdout, [kind |-> "error", error |-> Get(caught)])
          /\ UNCHANGED stderr
     ELSE /\ stderr' = Append(stderr, <<"Error:", Get(caught)>>)
          /\ UNCHANGED stdout
  /\ exitCode' = API_ERROR
  /\ pc' = "exited"
  /\ UNCHANGED <<env, locals, calls>>

\* the two lines every command writes when the credential is missing
MissingTokenLines ==
  << <<"Error: HUBSPOT_ACCESS_TOKEN environment variable is required">>,
     <<"Set it with: export HUBSPOT_ACCESS_TOKEN=your_token_here">> >>

\* the `Fetching ...` line of a command that prints neither JSON nor quietly
Progress(text) ==
  When(~options.quiet /\ ~options.json, <<[kind |-> "progress", text |-> text]>>)

\* the catch block of a command: the message, and the exit with a code
Failed(printed, message, code) ==
  /\ IF options.json
     THEN /\ stdout' = printed \o <<[kind |-> "error", error |-> message]>>
          /\ UNCHANGED stderr
     ELSE /\ stdout' = printed
          /\ stderr' = Append(stderr, <<"Error:", message>>)
  /\ exitCode' = code

\* a command that printed its result and returned
Printed(printed, code) ==
  /\ stdout' = printed
  /\ exitCode' = code
  /\ UNCHANGED stderr

\* `options.filter` applied to the fetched schemas
filterSchemas(schemaList, filter) ==
  IF IsSome(filter) /\ Get(filter) # s_empty
  THEN LET filterLower == toLowerCase(Get(filter))
           keep(s) == \/ includes(toLowerCase(s.name), filterLower)
                      \/ includes(toLowerCase(s.labels.singular), filterLower)
                      \/ includes(toLowerCase(s.labels.plural), filterLower)
       IN  SelectSeq(schemaList, keep)
  ELSE schemaList

\* `schemas.filter(isPortalScoped)`
customObjectsOf(schemaList) == SelectSeq(schemaList, isPortalScoped)

\* `error.message.includes('404')`
isNotFound(message) == includes(messageString(message), <<"4", "0", "4">>)

\* listSchemasCommand
ListSchemas ==
  /\ pc = "start"
  /\ command = "schemas"
  /\ IF TokenMissing(accessToken)
     THEN /\ stderr' = stderr \o MissingTokenLines
          /\ exitCode' = API_ERROR
          /\ UNCHANGED <<calls, stdout>>
     ELSE \E resp \in SchemasAnswers(directory) :
            LET client == HubSpotClient_constructor(accessToken)
                progress == Progress("Fetching schemas from HubSpot...")
                got == getSchemas(resp)
                filteredSchemas == filterSchemas(Get(got.value), options.filter)
                output ==
                  [i \in DOMAIN filteredSchemas |->
                     [name |-> filteredSchemas[i].name,
                      objectTypeId |-> objectTypeIdOf(filteredSchemas[i]),
                      label |-> filteredSchemas[i].labels.singular,
                      isPortalScoped |-> isPortalScoped(filteredSchemas[i])]]
            IN  IF client.threw
                THEN /\ Failed(<<>>, Get(client.message), API_ERROR)
                     /\ UNCHANGED calls
                ELSE /\ calls' = Append(calls, [req |-> Request("GET", "schemas", <<>>),
                                                resp |-> resp])
                     /\ IF got.threw
                        THEN Failed(progress, Get(got.message), API_ERROR)
                        ELSE IF Len(filteredSchemas) = 0
                        THEN IF options.json
                             THEN Printed(<<[kind |-> "schemasJson",
                                             results |-> <<>>, total |-> 0]>>,
                                          SUCCESS)
                             ELSE Printed(progress \o
                                          <<[kind |-> "schemasText", lines |->
                                             << <<"No schemas found matching the filter.">> >>]>>,
                                          SUCCESS)
                        ELSE IF options.json
                        THEN Printed(<<[kind |-> "schemasJson", results |-> output,
                                        total |-> Len(output)]>>, SUCCESS)
                        ELSE Printed(progress \o
                                     <<[kind |-> "schemasText", lines |->
                                        formatSchemasSimple(filteredSchemas,
                                                            options.quiet)]>>,
                                     SUCCESS)
  /\ pc' = "exited"
  /\ UNCHANGED <<env, locals>>

\* inspectObjectCommand
InspectObject ==
  /\ pc = "start"
  /\ command = "object"
  /\ IF TokenMissing(accessToken)
     THEN /\ stderr' = stderr \o MissingTokenLines
          /\ exitCode' = API_ERROR
          /\ UNCHANGED <<calls, stdout>>
     ELSE \E resp \in SchemaAnswers(directory, objectA) :
            LET client == HubSpotClient_constructor(accessToken)
                progress == Progress("Fetching schema for ...")
                got == getSchema(resp)
                schema == Get(got.value)
                failedWith(printed, message) ==
                  Failed(printed, message,
                         IF isNotFound(message) THEN OBJECT_NOT_FOUND
                         ELSE API_ERROR)
            IN  IF client.threw
                THEN /\ failedWith(<<>>, Get(client.message))
                     /\ UNCHANGED calls
                ELSE /\ calls' = Append(calls,
                                  [req |-> Request("GET", "schema", <<objectA>>),
                                   resp |-> resp])
                     /\ IF got.threw
                        THEN failedWith(progress, Get(got.message))
                        ELSE IF options.json
                        THEN Printed(<<[kind |-> "objectJson",
                                        name |-> schema.name,
                                        label |-> schema.labels.singular,
                                        objectTypeId |-> objectTypeIdOf(schema),
                                        isPortalScoped |-> isPortalScoped(schema),
                                        associations |->
                                          IF IsSome(schema.associations)
                                          THEN Get(schema.associations)
                                          ELSE <<>>]>>, SUCCESS)
                        ELSE Printed(progress \o
                                     <<[kind |-> "objectText", lines |->
                                        formatObjectDetails(schema, options.quiet,
                                                            options.verbose)]>>,
                                     SUCCESS)
  /\ pc' = "exited"
  /\ UNCHANGED <<env, locals>>

\* inspectAssociationsCommand without --verify
InspectAssociations ==
  /\ pc = "start"
  /\ command = "associations"
  /\ ~options.verify
  /\ IF TokenMissing(accessToken)
     THEN /\ stderr' = stderr \o MissingTokenLines
          /\ exitCode' = API_ERROR
          /\ UNCHANGED <<calls, stdout>>
     ELSE \E resp \in AssociationAnswers(gwAssoc, objectA, objectB) :
            LET client == HubSpotClient_constructor(accessToken)
                progress == Progress("Checking associations from ... to ...")
                done == verifyAssociationPath(objectA, objectB, resp)
                result == Get(done.value)
                code == IF ~result.valid THEN ASSOCIATION_INVALID ELSE SUCCESS
            IN  IF client.threw
                THEN /\ Failed(<<>>, Get(client.message), API_ERROR)
                     /\ UNCHANGED calls
                ELSE /\ calls' = Append(calls,
                                  [req |-> Request("GET", "associationTypes",
                                                   <<objectA, objectB>>),
                                   resp |-> resp])
                     /\ IF done.threw
                        THEN Failed(progress, Get(done.message), API_ERROR)
                        ELSE IF options.json
                        THEN Printed(<<[kind |-> "associationsJson",
                                        objectA |-> objectA,
                                        objectB |-> objectB,
                                        valid |-> result.valid,
                                        path |-> result.path,
                                        associationTypes |-> typesOf(done.value),
                                        error |-> result.error]>>, code)
                        ELSE Printed(progress \o
                                     <<[kind |-> "associationsText", lines |->
                                        formatAssociationsList(
                                          objectA, objectB, result,
                                          options.quiet, options.verbose)]>>,
                                     code)
  /\ pc' = "exited"
  /\ UNCHANGED <<env, locals>>

\* listCustomObjectsCommand
ListCustomObjects ==
  /\ pc = "start"
  /\ command = "custom"
  /\ IF TokenMissing(accessToken)
     THEN /\ stderr' = stderr \o MissingTokenLines
          /\ exitCode' = API_ERROR
          /\ UNCHANGED <<calls, stdout>>
     ELSE \E resp \in SchemasAnswers(directory) :
            LET client == HubSpotClient_constructor(accessToken)
                progress == Progress("Fetching custom objects from HubSpot...")
                got == getSchemas(resp)
                customObjects == customObjectsOf(Get(got.value))
                output ==
                  [i \in DOMAIN customObjects |->
                     [name |-> customObjects[i].name,
                      objectTypeId |-> objectTypeIdOf(customObjects[i]),
                      label |-> customObjects[i].labels.singular]]
            IN  IF client.threw
                THEN /\ Failed(<<>>, Get(client.message), API_ERROR)
                     /\ UNCHANGED calls
                ELSE /\ calls' = Append(calls, [req |-> Request("GET", "schemas", <<>>),
                                                resp |-> resp])
                     /\ IF got.threw
                        THEN Failed(progress, Get(got.message), API_ERROR)
                        ELSE IF Len(customObjects) = 0
                        THEN IF options.json
                             THEN Printed(<<[kind |-> "customJson",
                                             results |-> <<>>, total |-> 0]>>,
                                          SUCCESS)
                             ELSE Printed(progress \o
                                          <<[kind |-> "customText", lines |->
                                             << <<"No custom objects found in this portal.">> >>]>>,
                                          SUCCESS)
                        ELSE IF options.json
                        THEN Printed(<<[kind |-> "customJson", results |-> output,
                                        total |-> Len(output)]>>, SUCCESS)
                        ELSE Printed(progress \o
                                     <<[kind |-> "customText", lines |->
                                        << <<"", Len(customObjects),
                                             "Custom Objects Found:">>,
                                           <<"====">> >>
                                        \o joinLines(
                                             [i \in DOMAIN customObjects |->
                                                formatSchema(customObjects[i], TRUE)])]>>,
                                     SUCCESS)
  /\ pc' = "exited"
  /\ UNCHANGED <<env, locals>>

Next ==
  \/ Start
  \/ IssueRequest
  \/ FetchDirectory
  \/ ResolveA
  \/ ResolveB
  \/ Gate
  \/ AssociationCheck
  \/ Emit
  \/ Catch
  \/ ListSchemas
  \/ InspectObject
  \/ InspectAssociations
  \/ ListCustomObjects

Spec == Init /\ [][Next]_vars

(***************************************************************************)
(* What a run shows: its calls and the verdict it printed.                 *)
(***************************************************************************)
Exited == pc = "exited"

\* the directory fetch was issued and answered with the directory
DirectoryFetched ==
  /\ Len(calls) >= 1
  /\ calls[1].req.endpoint = "schemas"
  /\ AxiosResolves(calls[1].resp)

\* the directory fetch was issued and failed
DirectoryFetchFailed ==
  /\ Len(calls) >= 1
  /\ calls[1].req.endpoint = "schemas"
  /\ ~AxiosResolves(calls[1].resp)

CallsTo(endpoint) == {i \in DOMAIN calls : calls[i].req.endpoint = endpoint}

\* a verdict (not an error message) was written to stdout
VerdictEmitted == Len(stdout) > 0 /\ stdout[1].kind \in {"json", "text"}
verdict == stdout[1]

LinesWith(head) == {i \in DOMAIN verdict.lines : verdict.lines[i][1] = head}

\* what the verdict says, in either form
ReportedExistsA ==
  IF verdict.kind = "json" THEN verdict.objectA.exists
  ELSE verdict.lines[2][1] = "Object exists"
ReportedExistsB ==
  IF verdict.kind = "json" THEN verdict.objectB.exists
  ELSE verdict.lines[3][1] = "Object exists"
ReportedAssociationExists ==
  IF verdict.kind = "json" THEN verdict.association.defined
  ELSE LinesWith("Association definition found") # {}
ReportedPathPresent ==
  IF verdict.kind = "json" THEN IsSome(verdict.recommendedApiPath)
  ELSE LinesWith("POST /crm/v4/associations") # {}

\* the lookup rules of the schema directory, stated on the directory itself,
\* and tabulated once for the directories and the identifiers of the runs
\* (f @@ <<>> is the function f, held as a table)
KnownIdentifiers == Inputs \cup {s.name : s \in SchemaPool}
ExactNameTable ==
  [dir \in Directories |->
     [input \in KnownIdentifiers |->
        {i \in DOMAIN dir : toLowerCase(dir[i].name) = toLowerCase(input)}]
     @@ <<>>] @@ <<>>
LabelTable ==
  [dir \in Directories |->
     [input \in KnownIdentifiers |->
        {i \in DOMAIN dir :
           \/ toLowerCase(dir[i].labels.singular) = toLowerCase(input)
           \/ toLowerCase(dir[i].labels.plural) = toLowerCase(input)}]
     @@ <<>>] @@ <<>>
PartialNameTable ==
  [dir \in Directories |->
     [input \in KnownIdentifiers |->
        {i \in DOMAIN dir :
           includes(toLowerCase(dir[i].name), toLowerCase(input))}]
     @@ <<>>] @@ <<>>
ExactNameMatches(dir, input) == ExactNameTable[dir][input]
LabelMatches(dir, input) == LabelTable[dir][input]
PartialNameMatches(dir, input) == PartialNameTable[dir][input]
InDirectory(dir, input) ==
  ExactNameMatches(dir, input) \cup LabelMatches(dir, input)
    \cup PartialNameMatches(dir, input) # {}

\* the steps after which schemaA, and schemaB, hold the result of the lookup
AResolved == pc \in {"resolveB", "gate", "assoc", "emit"} \/ VerdictEmitted
BResolved == pc \in {"gate", "assoc", "emit"} \/ VerdictEmitted

(***************************************************************************)
(* C1. Gating: the association-types query is issued only when both A and  *)
(* B were resolved as existing.  In every run where A or B does not        *)
(* exist, the query is invoked zero times and the verdict reports no       *)
(* association, an empty list of types and no recommended path.            *)
(***************************************************************************)
C1_Gating ==
  Verifying =>
  /\ CallsTo("associationTypes") # {} => objectAExists /\ objectBExists
  /\ (BResolved /\ (~objectAExists \/ ~objectBExists)) =>
       /\ CallsTo("associationTypes") = {}
       /\ typesOf(associationResult) = <<>>
  /\ (VerdictEmitted /\ (~ReportedExistsA \/ ~ReportedExistsB)) =>
       /\ CallsTo("associationTypes") = {}
       /\ ~ReportedAssociationExists
       /\ ~ReportedPathPresent
       /\ verdict.kind = "json" =>
            /\ verdict.association.types = <<>>
            /\ verdict.recommendedApiPath = None

\* a verdict for an existing A and a B the probe did not find
C1_Witness ==
  /\ Exited /\ VerdictEmitted
  /\ verdict.kind = "json"
  /\ verdict.objectA.exists /\ ~verdict.objectB.exists
  /\ CallsTo("objects") # {}

(***************************************************************************)
(* C2. Exit codes of verify: 0 exactly when the verdict has both objects   *)
(* existing and an association, 1 exactly when both exist and there is no  *)
(* association, 2 exactly when at least one object does not exist (also    *)
(* when there is no association), 3 when the directory fetch fails; no     *)
(* other exit code is produced.                                            *)
(***************************************************************************)
C2_ExitCodes ==
  (Verifying /\ Exited) =>
    /\ exitCode \in {SUCCESS, ASSOCIATION_INVALID, OBJECT_NOT_FOUND, API_ERROR}
    /\ exitCode # API_ERROR <=> VerdictEmitted
    /\ VerdictEmitted =>
         /\ exitCode = SUCCESS <=>
              ReportedExistsA /\ ReportedExistsB /\ ReportedAssociationExists
         /\ exitCode = ASSOCIATION_INVALID <=>
              ReportedExistsA /\ ReportedExistsB /\ ~ReportedAssociationExists
         /\ exitCode = OBJECT_NOT_FOUND <=>
              ~ReportedExistsA \/ ~ReportedExistsB
    /\ DirectoryFetchFailed => exitCode = API_ERROR

\* a text verdict with a missing object ends with exit code 2
C2_Witness ==
  /\ Exited /\ VerdictEmitted
  /\ verdict.kind = "text"
  /\ ReportedExistsA /\ ~ReportedExistsB
  /\ exitCode = OBJECT_NOT_FOUND

(***************************************************************************)
(* C3. Tier ordering: every existence probe comes after the directory      *)
(* fetch, which succeeded, and is for an identifier the directory lookup   *)
(* did not find; an identifier found in the directory is never probed.     *)
(***************************************************************************)
C3_TierOrdering ==
  \A i \in CallsTo("objects") :
    /\ i > 1
    /\ DirectoryFetched
    /\ calls[i].req.args[1] \in {objectA, objectB}
    /\ ~InDirectory(directory, calls[i].req.args[1])

\* a run that probed A after fetching a non-empty directory
C3_Witness ==
  /\ Exited
  /\ Len(directory) > 0
  /\ Len(calls) >= 2
  /\ calls[2].req.endpoint = "objects"
  /\ calls[2].req.args[1] = objectA
  /\ InDirectory(directory, objectB)

(***************************************************************************)
(* C4. Direction sensitivity: the association types are queried for the    *)
(* pair (resolved name of A, resolved name of B) in the caller's order;    *)
(* when the gateway defines associations for one direction only, the       *)
(* verdict reports an association exactly for that direction.              *)
(***************************************************************************)
ResolvedName(schema, object) ==
  IF IsSome(schema) THEN Get(schema).name ELSE object

C4_Direction ==
  Verifying =>
  /\ \A i \in CallsTo("associationTypes") :
       calls[i].req.args = <<ResolvedName(schemaA, objectA),
                             ResolvedName(schemaB, objectB)>>
  /\ \A i \in CallsTo("associationTypes") :
       (VerdictEmitted /\ AxiosResolves(calls[i].resp)) =>
         (ReportedAssociationExists <=>
            <<ResolvedName(schemaA, objectA), ResolvedName(schemaB, objectB)>>
              \in gwAssoc)

\* verify(B, A) against a gateway that defines A -> B only
C4_Witness ==
  /\ Exited /\ VerdictEmitted
  /\ gwAssoc = {<<s_deals, s_p_cars>>}
  /\ ResolvedName(schemaA, objectA) = s_p_cars
  /\ ResolvedName(schemaB, objectB) = s_deals
  /\ \E i \in CallsTo("associationTypes") : AxiosResolves(calls[i].resp)
  /\ ~ReportedAssociationExists

(***************************************************************************)
(* C5. Lookup precedence: findSchemaByNameOrLabel returns a schema whose   *)
(* name equals the input if there is one anywhere in the list, else one    *)
(* whose singular or plural label equals it, else one whose name contains  *)
(* it, else nothing (all comparisons case-insensitive).                    *)
(***************************************************************************)
LookupPrecedence(dir, input, result) ==
  LET exact == ExactNameMatches(dir, input)
      label == LabelMatches(dir, input)
      partial == PartialNameMatches(dir, input)
  IN  /\ exact # {} => IsSome(result) /\ \E i \in exact : Get(result) = dir[i]
      /\ (exact = {} /\ label # {}) =>
           IsSome(result) /\ \E i \in label : Get(result) = dir[i]
      /\ (exact = {} /\ label = {} /\ partial # {}) =>
           IsSome(result) /\ \E i \in partial : Get(result) = dir[i]
      /\ (exact = {} /\ label = {} /\ partial = {}) => ~IsSome(result)

C5_LookupPrecedence ==
  /\ AResolved => LookupPrecedence(directory, objectA, schemaA)
  /\ BResolved => LookupPrecedence(directory, objectB, schemaB)

\* "deals" resolves to the second schema although the first one matches it by
\* label and by substring
C5_Witness ==
  /\ AResolved
  /\ Len(directory) >= 2
  /\ objectA = s_deals
  /\ 1 \in LabelMatches(directory, objectA) \cap PartialNameMatches(directory, objectA)
  /\ 1 \notin ExactNameMatches(directory, objectA)
  /\ schemaA = Some(directory[2])

(***************************************************************************)
(* Diagnostics in a verdict.  The fields below are the ones every verdict  *)
(* has, whatever the gateway answered; a diagnostic is a further field of  *)
(* the JSON object, or a line of the text carrying the error.              *)
(***************************************************************************)
VerdictFields ==
  {"kind", "objectA", "objectB", "association", "recommendedApiPath", "valid",
   "writeOperationsPerformed"}
ObjectFields == {"input", "internalName", "exists", "verifiedVia", "isPortalScoped"}
AssociationFields == {"defined", "cardinality", "types"}
ErrorHeads ==
  {"Insufficient permissions (403)", "API Error", "HubSpot API Error",
   "Network Error"}

ProbesOf(object) ==
  {i \in CallsTo("objects") : calls[i].req.args[1] = object}

\* the probe answered with an HTTP error status other than 404
ProbeErrorStatus(resp) ==
  resp.response /\ ~AxiosResolves(resp) /\ resp.status # 404

\* the verdict carries a diagnostic for object A (side "objectA") or B
ObjectAnnotated(side) ==
  IF verdict.kind = "json"
  THEN \/ DOMAIN verdict[side] # ObjectFields
       \/ DOMAIN verdict # VerdictFields
  ELSE \E i \in DOMAIN verdict.lines : verdict.lines[i][1] \in ErrorHeads

\* the verdict carries a diagnostic for the association query
AssociationAnnotated ==
  IF verdict.kind = "json"
  THEN \/ DOMAIN verdict.association # AssociationFields
       \/ DOMAIN verdict # VerdictFields
  ELSE \E i \in DOMAIN verdict.lines : verdict.lines[i][1] \in ErrorHeads

(***************************************************************************)
(* C6. A probe answered 403, or another error status that is not 404, is   *)
(* not conflated with not-found: the verdict and outcome of verify differ  *)
(* from those of a 404 (object reported missing, exit code 2) in that      *)
(* they carry an insufficient-permissions or status-code annotation.       *)
(***************************************************************************)
C6_ProbeErrorsDistinguished ==
  (Exited /\ VerdictEmitted) =>
    /\ (\E i \in ProbesOf(objectA) : ProbeErrorStatus(calls[i].resp)) =>
         \/ ObjectAnnotated("objectA")
         \/ ReportedExistsA
         \/ exitCode # OBJECT_NOT_FOUND
    /\ (\E i \in ProbesOf(objectB) : ProbeErrorStatus(calls[i].resp)) =>
         \/ ObjectAnnotated("objectB")
         \/ ReportedExistsB
         \/ exitCode # OBJECT_NOT_FOUND

(***************************************************************************)
(* C7. Zero results versus error: with both objects existing, an           *)
(* association query that succeeds with an empty list gives association   *)
(* existence false and no error; one that fails gives association         *)
(* existence false and a populated error field in the verdict.             *)
(***************************************************************************)
C7_ZeroResultsVersusError ==
  (Exited /\ VerdictEmitted) =>
    \A i \in CallsTo("associationTypes") :
      /\ (AxiosResolves(calls[i].resp)
            /\ Get(calls[i].resp.data).results = <<>>) =>
           ~ReportedAssociationExists /\ ~AssociationAnnotated
      /\ ~AxiosResolves(calls[i].resp) =>
           ~ReportedAssociationExists /\ AssociationAnnotated

(***************************************************************************)
(* C8. A failure of the association query is never fatal: when both        *)
(* objects exist and the association-types request fails, with an HTTP     *)
(* error or without any response, verify prints a verdict without an       *)
(* association and ends with exit code 1, never 3.                         *)
(***************************************************************************)
C8_AssociationFailureNotFatal ==
  Verifying =>
  \A i \in CallsTo("associationTypes") :
    ~AxiosResolves(calls[i].resp) =>
      /\ pc \in {"emit", "exited"}
      /\ ~associationExists
      /\ Exited =>
           /\ VerdictEmitted
           /\ ReportedExistsA /\ ReportedExistsB
           /\ ~ReportedAssociationExists
           /\ exitCode = ASSOCIATION_INVALID

\* a run whose association query got no response
C8_Witness ==
  /\ Verifying
  /\ Exited
  /\ \E i \in CallsTo("associationTypes") : ~calls[i].resp.response
  /\ exitCode = ASSOCIATION_INVALID

(***************************************************************************)
(* C9. A failure of the directory fetch aborts the verification: no        *)
(* probe and no association query is issued, no verdict is printed, only   *)
(* an error message, and the exit code is 3.                               *)
(***************************************************************************)
C9_DirectoryFailureAborts ==
  (Verifying /\ DirectoryFetchFailed) =>
    /\ Len(calls) = 1
    /\ pc \in {"catch", "exited"}
    /\ ~VerdictEmitted
    /\ Exited =>
         /\ exitCode = API_ERROR
         /\ IF options.json
            THEN Len(stdout) = 1 /\ stdout[1].kind = "error" /\ stderr = <<>>
            ELSE Len(stderr) = 1 /\ stderr[1][1] = "Error:" /\ stdout = <<>>

\* a run under --json whose directory fetch was answered with an error status
C9_Witness ==
  /\ Verifying
  /\ Exited
  /\ DirectoryFetchFailed
  /\ calls[1].resp.response
  /\ options.json
  /\ Len(stdout) = 1

(***************************************************************************)
(* C10. Failures of the existence resolution of one object do not abort:   *)
(* in every run whose directory fetch succeeded both A and B are resolved  *)
(* and a verdict with both results is printed, whatever the outcome of     *)
(* the probe for A.                                                        *)
(***************************************************************************)
C10_BothAlwaysResolved ==
  (Verifying /\ Exited /\ DirectoryFetched) =>
    /\ VerdictEmitted
    /\ ~InDirectory(directory, objectA) => ProbesOf(objectA) # {}
    /\ ~InDirectory(directory, objectB) => ProbesOf(objectB) # {}

(***************************************************************************)
(* C11. Read-only guarantee: in every run of every command, every request  *)
(* sent to the gateway is a GET of the schema list, of a single schema, of *)
(* the objects endpoint with limit 1, or of the association types; and     *)
(* every verdict of verify carries writeOperationsPerformed = false.       *)
(***************************************************************************)
ReadEndpoints == {"schemas", "schema", "objects", "associationTypes"}

C11_ReadOnly ==
  /\ \A i \in DOMAIN calls :
       /\ calls[i].req.method = "GET"
       /\ calls[i].req.endpoint \in ReadEndpoints
       /\ calls[i].req.endpoint = "objects" =>
            calls[i].req.params = [limit |-> 1]
  /\ VerdictEmitted =>
       IF verdict.kind = "json"
       THEN verdict.writeOperationsPerformed = FALSE
       ELSE LinesWith("No write operations were performed") # {}

\* a JSON verdict after the directory fetch, two probes and the association query
C11_Witness ==
  /\ Exited /\ VerdictEmitted
  /\ verdict.kind = "json"
  /\ Len(calls) = 4
  /\ CallsTo("objects") = {2, 3}
  /\ CallsTo("associationTypes") = {4}

(***************************************************************************)
(* C12. Existence resolution result: for each of A and B, when the         *)
(* directory lookup finds a schema then exists = true, the source is       *)
(* "schemas" and the resolved name is that schema's name; when it finds    *)
(* none the source is "objects", the resolved name is the literal input    *)
(* and exists is true exactly when the probe answered HTTP 200.  So the    *)
(* source is "schemas" exactly when a schema was found.                    *)
(***************************************************************************)
\* the steps after which the internal names are set
NamesResolved == pc \in {"assoc", "emit"} \/ VerdictEmitted

\* the schemas of the directory that the input matches by any rule
MatchesOf(dir, input) ==
  ExactNameMatches(dir, input) \cup LabelMatches(dir, input)
    \cup PartialNameMatches(dir, input)

\* the probe of A is the first probe of the run, the probe of B the last
ProbeOfA == CHOOSE i \in CallsTo("objects") : \A j \in CallsTo("objects") : i <= j
ProbeOfB == CHOOSE i \in CallsTo("objects") : \A j \in CallsTo("objects") : i >= j

ResolutionResult(input, probeIndex, exists, source, name) ==
  IF InDirectory(directory, input)
  THEN /\ exists
       /\ source = "schemas"
       /\ \E i \in MatchesOf(directory, input) : name = directory[i].name
  ELSE /\ source = "objects"
       /\ name = input
       /\ calls[probeIndex].req.args = <<input>>
       /\ exists <=> (calls[probeIndex].resp.response
                        /\ calls[probeIndex].resp.status = 200)

C12_ResolutionResult ==
  (Verifying /\ NamesResolved) =>
    /\ ResolutionResult(objectA, ProbeOfA, objectAExists, verifiedViaA,
                        internalNameA)
    /\ ResolutionResult(objectB, ProbeOfB, objectBExists, verifiedViaB,
                        internalNameB)
    /\ verifiedViaA = "schemas" <=> InDirectory(directory, objectA)
    /\ verifiedViaB = "schemas" <=> InDirectory(directory, objectB)
    /\ (VerdictEmitted /\ verdict.kind = "json") =>
         /\ ResolutionResult(objectA, ProbeOfA, verdict.objectA.exists,
                             verdict.objectA.verifiedVia,
                             verdict.objectA.internalName)
         /\ ResolutionResult(objectB, ProbeOfB, verdict.objectB.exists,
                             verdict.objectB.verifiedVia,
                             verdict.objectB.internalName)

\* A is not in the directory and its probe answered 200; B is found by its
\* label and resolved to a name that is not the input
C12_Witness ==
  /\ Exited /\ VerdictEmitted
  /\ verdict.kind = "json"
  /\ ~InDirectory(directory, objectA)
  /\ verdict.objectA.exists
  /\ verdict.objectA.verifiedVia = "objects"
  /\ verdict.objectB.verifiedVia = "schemas"
  /\ verdict.objectB.internalName # objectB

(***************************************************************************)
(* C13. Recommended path: the verdict of verify contains a recommended     *)
(* path exactly when the association exists, and the path is the           *)
(* batch-create path /crm/v4/associations/{A}/{B}/batch/create built from  *)
(* the resolved internal names of A and B in that order, never from the    *)
(* inputs when they differ from the resolved names.                        *)
(***************************************************************************)
BatchCreatePath ==
  <<"POST /crm/v4/associations", ResolvedName(schemaA, objectA),
    ResolvedName(schemaB, objectB), "batch/create">>

C13_RecommendedPath ==
  (Verifying /\ VerdictEmitted) =>
    /\ ReportedPathPresent <=> ReportedAssociationExists
    /\ IF verdict.kind = "json"
       THEN verdict.recommendedApiPath \in {None, Some(BatchCreatePath)}
       ELSE \A i \in LinesWith("POST /crm/v4/associations") :
              verdict.lines[i] = BatchCreatePath

\* a JSON verdict with a path built from names that are not the inputs
C13_Witness ==
  /\ Exited /\ VerdictEmitted
  /\ verdict.kind = "json"
  /\ IsSome(verdict.recommendedApiPath)
  /\ Get(verdict.recommendedApiPath)[2] # objectA
  /\ Get(verdict.recommendedApiPath)[3] # objectB
  /\ Get(verdict.recommendedApiPath)[2] # Get(verdict.recommendedApiPath)[3]

(***************************************************************************)
(* C14. Label-mismatch warning: for each side resolved through the         *)
(* directory, verify raises the warning "label differs from API name"      *)
(* exactly when the input differs from the resolved internal name and      *)
(* equals the display label of the schema, compared case-insensitively.    *)
(* Stated on the text verdicts that have a warnings block, those of an     *)
(* existing association.                                                   *)
(***************************************************************************)
\* the text verdict warns that the input is a label of the object of that name
LabelWarningFor(input, name) ==
  \E i \in LinesWith("UI label differs from API object name") :
    verdict.lines[i] = <<"UI label differs from API object name", input, name>>

\* the condition of the warning: the input is not the resolved name and is
\* the display label in some letter case
LabelMismatch(schema, input) ==
  /\ IsSome(schema)
  /\ input # Get(schema).name
  /\ toLowerCase(input) = toLowerCase(Get(schema).labels.singular)

C14_LabelWarning ==
  (Verifying /\ VerdictEmitted /\ verdict.kind = "text"
     /\ ReportedAssociationExists) =>
    /\ LabelWarningFor(objectA, internalNameA) <=> LabelMismatch(schemaA, objectA)
    /\ LabelWarningFor(objectB, internalNameB) <=> LabelMismatch(schemaB, objectB)

(***************************************************************************)
(* C15. Warning independence: the label-mismatch warning and the           *)
(* portal-scope warning are each emitted on their own condition: a         *)
(* verification in which A or B is portal-scoped emits the portal-scope    *)
(* warning, one in which both conditions hold emits both warnings, one in  *)
(* which neither holds emits none.  The label condition is taken as the    *)
(* command computes it.                                                    *)
(***************************************************************************)
\* the verdict carries a warning of that kind, in its JSON list of warnings
\* or in its text
HasWarning(head) ==
  IF verdict.kind = "json"
  THEN /\ "warnings" \in DOMAIN verdict
       /\ \E i \in DOMAIN verdict.warnings : verdict.warnings[i][1] = head
  ELSE LinesWith(head) # {}

LabelCondition == labelDiffers(schemaA, objectA) \/ labelDiffers(schemaB, objectB)
PortalCondition == portalScoped(schemaA) \/ portalScoped(schemaB)

C15_WarningIndependence ==
  (Verifying /\ VerdictEmitted) =>
    /\ HasWarning("UI label differs from API object name") <=> LabelCondition
    /\ HasWarning("Single PUT association endpoint may return 500 in sandbox")
         <=> PortalCondition

(***************************************************************************)
(* The classification of one schema, as `schemas` and `custom` show it:    *)
(* the directory holds a single schema whose four classifying fields are   *)
(* drawn independently.                                                    *)
(***************************************************************************)
\* the allow-list of standard object names
AllowList ==
  {<<"c", "o", "n", "t", "a", "c", "t", "s">>,
   <<"c", "o", "m", "p", "a", "n", "i", "e", "s">>,
   <<"d", "e", "a", "l", "s">>,
   <<"t", "i", "c", "k", "e", "t", "s">>,
   <<"p", "r", "o", "d", "u", "c", "t", "s">>,
   <<"l", "i", "n", "e", "_", "i", "t", "e", "m", "s">>,
   <<"q", "u", "o", "t", "e", "s">>,
   <<"c", "a", "l", "l", "s">>,
   <<"e", "m", "a", "i", "l", "s">>,
   <<"m", "e", "e", "t", "i", "n", "g", "s">>,
   <<"n", "o", "t", "e", "s">>,
   <<"t", "a", "s", "k", "s">>,
   <<"c", "o", "m", "m", "u", "n", "i", "c", "a", "t", "i", "o", "n", "s">>,
   <<"p", "o", "s", "t", "a", "l", "_", "m", "a", "i", "l">>,
   <<"m", "a", "r", "k", "e", "t", "i", "n", "g", "_", "e", "v", "e", "n", "t", "s">>,
   <<"f", "e", "e", "d", "b", "a", "c", "k", "_", "s", "u", "b", "m", "i", "s", "s", "i", "o", "n", "s">>,
   <<"g", "o", "a", "l", "s">>,
   <<"i", "n", "v", "o", "i", "c", "e", "s">>,
   <<"s", "u", "b", "s", "c", "r", "i", "p", "t", "i", "o", "n", "s">>,
   <<"t", "a", "x", "e", "s">>,
   <<"d", "i", "s", "c", "o", "u", "n", "t", "s">>,
   <<"f", "e", "e", "s">>}

ClassifyNames == AllowList \cup {s_dealsx, s_p_cars, s_Deals}
ClassifyMetaTypes == {"PORTAL_SPECIFIC", "STANDARD"}
ClassifyObjectTypeIds == {None, Some(s_empty), Some(s_0_3), Some(s_2_1)}
ClassifyQualifiedNames == {None, Some(s_empty), Some(s_p_cars), Some(s_deals)}

ClassifySchemas ==
  {Schema(name, s_Deal, s_Deals, metaType, objectTypeId, fullyQualifiedName) :
     name \in ClassifyNames, metaType \in ClassifyMetaTypes,
     objectTypeId \in ClassifyObjectTypeIds,
     fullyQualifiedName \in ClassifyQualifiedNames}

InitClassify ==
  /\ \E schema \in ClassifySchemas : directory = <<schema>>
  /\ gwAssoc = {}
  /\ accessToken = Some(s_token)
  /\ command \in {"schemas", "custom"}
  /\ objectA = s_empty
  /\ objectB = s_empty
  /\ options \in OptionSets
  /\ pc = "start"
  /\ outstanding = <<>>
  /\ schemas = <<>>
  /\ schemaA = None
  /\ schemaB = None
  /\ probeResultA = None
  /\ probeResultB = None
  /\ objectAExists = FALSE
  /\ objectBExists = FALSE
  /\ verifiedViaA = "schemas"
  /\ verifiedViaB = "schemas"
  /\ internalNameA = s_empty
  /\ internalNameB = s_empty
  /\ associationResult = None
  /\ associationExists = FALSE
  /\ cardinality = s_empty
  /\ caught = None
  /\ calls = <<>>
  /\ stdout = <<>>
  /\ stderr = <<>>
  /\ exitCode = SUCCESS

NextClassify ==
  \/ ListSchemas
  \/ ListCustomObjects

SpecClassify == InitClassify /\ [][NextClassify]_vars

(***************************************************************************)
(* C16. Classification rule: isPortalScoped is true if metaType is         *)
(* "PORTAL_SPECIFIC", else true if objectTypeId starts with "2-", else     *)
(* true if fullyQualifiedName starts with "p", else true exactly when the  *)
(* name is not one of the 22 standard object names; every use of it on     *)
(* the same schema gives this same value.                                  *)
(***************************************************************************)
\* the rule, on the four fields
ClassifiedPortalScoped(metaType, objectTypeId, fullyQualifiedName, name) ==
  \/ metaType = "PORTAL_SPECIFIC"
  \/ objectTypeId # None /\ startsWith(Get(objectTypeId), s_2_)
  \/ fullyQualifiedName # None /\ startsWith(Get(fullyQualifiedName), s_p)
  \/ name \notin AllowList

\* what the rule says of the schema of the directory
Expected ==
  ClassifiedPortalScoped(directory[1].metaType, directory[1].objectTypeId,
                         directory[1].fullyQualifiedName, directory[1].name)

\* the output of `schemas` or `custom` after a successful fetch
Listed == Exited /\ Len(calls) = 1 /\ AxiosResolves(calls[1].resp)
listing == stdout[Len(stdout)]

C16_Classification ==
  /\ Cardinality(AllowList) = 22
  /\ isPortalScoped(directory[1]) <=> Expected
  /\ Listed =>
       /\ listing.kind = "schemasJson" =>
            listing.results[1].isPortalScoped = Expected
       /\ listing.kind = "schemasText" =>
            \A i \in DOMAIN listing.lines :
              listing.lines[i][1] = "object" =>
                (listing.lines[i][4] = "portal-scoped" <=> Expected)
       /\ listing.kind = "customJson" => (listing.total = 1 <=> Expected)
       /\ listing.kind = "customText" =>
            \A i \in DOMAIN listing.lines :
              /\ listing.lines[i][1] = "badge" => Expected
              /\ listing.lines[i][1] = "No custom objects found in this portal."
                   => ~Expected

\* `schemas --json` shows as portal-scoped a schema that only its
\* fullyQualifiedName classifies
C16_Witness ==
  /\ Listed
  /\ listing.kind = "schemasJson"
  /\ directory[1].metaType = "STANDARD"
  /\ directory[1].objectTypeId = Some(s_0_3)
  /\ directory[1].fullyQualifiedName = Some(s_p_cars)
  /\ directory[1].name = s_deals
  /\ listing.results[1].isPortalScoped

(***************************************************************************)
(* C17. The JSON verdict of verify carries the same information as the     *)
(* text printed for the same inputs and gateway answers: existence,        *)
(* resolved name and source of each object, association existence,         *)
(* recommended path, and the ordered list of warnings; every warning of    *)
(* the text is present in the JSON verdict.                                *)
(***************************************************************************)
\* the text that the same run prints without --json
textLines == textVerdict.lines

WarningHeads ==
  {"UI label differs from API object name",
   "Single PUT association endpoint may return 500 in sandbox"}

\* the warnings of the text, in order
textWarnings ==
  SelectSeq(textLines, LAMBDA line : line[1] \in WarningHeads)

C17_JsonTextEquivalent ==
  (Verifying /\ VerdictEmitted /\ verdict.kind = "json") =>
    /\ textLines[2] =
         IF verdict.objectA.exists
         THEN <<"Object exists", verdict.objectA.internalName,
                sourceText(verdict.objectA.verifiedVia)>>
         ELSE <<"Object not found", verdict.objectA.input>>
    /\ textLines[3] =
         IF verdict.objectB.exists
         THEN <<"Object exists", verdict.objectB.internalName,
                sourceText(verdict.objectB.verifiedVia)>>
         ELSE <<"Object not found", verdict.objectB.input>>
    /\ verdict.association.defined <=>
         \E i \in DOMAIN textLines : textLines[i][1] = "Association definition found"
    /\ \A i \in DOMAIN textLines :
         textLines[i][1] = "POST /crm/v4/associations" =>
           verdict.recommendedApiPath = Some(textLines[i])
    /\ IsSome(verdict.recommendedApiPath) =>
         \E i \in DOMAIN textLines : textLines[i] = Get(verdict.recommendedApiPath)
    /\ textWarnings # <<>> =>
         /\ "warnings" \in DOMAIN verdict
         /\ verdict.warnings = textWarnings

(***************************************************************************)
(* C18. Labels are never used in request paths without resolution: every   *)
(* object-type identifier in the path of a request of any command is the   *)
(* name of a schema found by resolving a user input against the fetched    *)
(* directory, or a literal user input whose directory lookup failed; an    *)
(* input that is a display label (and not a name) is never put in a path   *)
(* unresolved.                                                             *)
(***************************************************************************)
\* the identifier is the name of the schema an input was resolved to
ResolvedFromDirectory(x) ==
  /\ DirectoryFetched
  /\ \E input \in {objectA, objectB} :
       LET found == findSchemaByNameOrLabel(directory, input)
       IN  IsSome(found) /\ Get(found).name = x

\* the identifier is an input that the directory lookup did not find
LiteralAfterFailedLookup(x) ==
  /\ DirectoryFetched
  /\ x \in {objectA, objectB}
  /\ ~InDirectory(directory, x)

\* the identifier is a display label of a schema of the portal, not a name
IsDisplayLabel(x) ==
  LabelMatches(directory, x) # {} /\ ExactNameMatches(directory, x) = {}

C18_NoUnresolvedLabelInPath ==
  \A i \in DOMAIN calls :
    \A k \in DOMAIN calls[i].req.args :
      \/ ResolvedFromDirectory(calls[i].req.args[k])
      \/ LiteralAfterFailedLookup(calls[i].req.args[k])
      \/ ~IsDisplayLabel(calls[i].req.args[k])

(***************************************************************************)
(* C19. Termination with exactly one outcome: every run of verify whose    *)
(* gateway calls all return or fail ends in exactly one of the four        *)
(* outcomes (API error, object not found, association invalid, success),   *)
(* and the pipeline only moves forward through fetch directory, resolve    *)
(* A, resolve B, gate, association check, done.  Every step moves to a     *)
(* later position, a run that has not ended can take a step, and a run     *)
(* that has ended has one exit code and takes no further step.             *)
(***************************************************************************)
Positions ==
  <<"start", "fetch", "resolveA", "resolveB", "gate", "assoc", "emit", "catch",
    "exited">>

Rank(position) == CHOOSE i \in DOMAIN Positions : Positions[i] = position

\* the outcome of a run that has ended: its exit code, and a verdict unless
\* the outcome is the API error
OneOutcome ==
  /\ exitCode \in {SUCCESS, ASSOCIATION_INVALID, OBJECT_NOT_FOUND, API_ERROR}
  /\ VerdictEmitted <=> exitCode # API_ERROR
  /\ Len(stdout) + Len(stderr) >= 1

C19_Termination ==
  /\ [][Verifying =>
          \/ Rank(pc') > Rank(pc)
          \/ pc' = pc /\ outstanding = <<>> /\ outstanding' # <<>>]_vars
  /\ [](Verifying => (Exited \/ ENABLED Next))
  /\ []((Verifying /\ Exited) => (OneOutcome /\ ~ENABLED Next))

\* a run that went through every step of the pipeline and ended
C19_Witness ==
  /\ Verifying
  /\ Exited
  /\ Len(calls) = 4
  /\ exitCode = SUCCESS

(***************************************************************************)
(* C20. Probe outcome mapping: HubSpotClient.objectExists returns exists   *)
(* = true only for an HTTP 200 answer; for 404, exists = false and no      *)
(* error annotation; for 403, exists = false and the annotation            *)
(* 'Insufficient permissions (403)'; for any other error status, exists =  *)
(* false and an annotation with the status code; the source is "objects"   *)
(* in all these cases; it throws only when there was no HTTP response.     *)
(***************************************************************************)
lastCall == calls[Len(calls)]

\* the result that objectExists returned for the answer of the gateway
ProbeMapping(result, resp) ==
  /\ resp.response
  /\ result.verifiedVia = "objects"
  /\ result.exists <=> resp.status = 200
  /\ resp.status = 404 => result.error = None
  /\ resp.status = 403 =>
       result.error = Some(<<"Insufficient permissions (403)">>)
  /\ (resp.status \notin {403, 404} /\ ~AxiosResolves(resp)) =>
       result.error = Some(<<"API Error", resp.status>>)
  /\ AxiosResolves(resp) => result.error = None

C20_ProbeMapping ==
  /\ (pc = "resolveB" /\ IsSome(probeResultA)) =>
       /\ lastCall.req = ProbeRequest(objectA)
       /\ ProbeMapping(Get(probeResultA), lastCall.resp)
  /\ (pc = "gate" /\ IsSome(probeResultB)) =>
       /\ lastCall.req = ProbeRequest(objectB)
       /\ ProbeMapping(Get(probeResultB), lastCall.resp)
  /\ \A i \in CallsTo("objects") :
       IF calls[i].resp.response
       THEN pc = "catch" => i < Len(calls)
       ELSE /\ i = Len(calls)
            /\ pc \in {"catch", "exited"}
            /\ caught = Some(NetworkErrorMessage)
            /\ probeResultB = None
            /\ ~VerdictEmitted

\* a run whose probe of A answered 403 and whose probe of B answered 500
C20_Witness ==
  /\ Exited
  /\ IsSome(probeResultA)
  /\ Get(probeResultA).error = Some(<<"Insufficient permissions (403)">>)
  /\ IsSome(probeResultB)
  /\ Get(probeResultB).error = Some(<<"API Error", 500>>)

(***************************************************************************)
(* C21. No retries and bounded calls: a run of verify fetches the schema   *)
(* directory once, probes at most once for A and at most once for B, asks  *)
(* for the association types at most once, and makes at most four          *)
(* requests.  As claimed: no object is probed twice and no request that    *)
(* failed is issued again.                                                 *)
(***************************************************************************)
\* the verification went past the credential check and the fetch
PastFetch == pc \notin {"start", "fetch"} /\ Len(calls) >= 1

\* the request got no answer, or an answer with an error status
CallFailed(i) == ~AxiosResolves(calls[i].resp)

BoundedCalls ==
  /\ Cardinality(CallsTo("schemas")) <= 1
  /\ PastFetch => CallsTo("schemas") = {1}
  /\ Cardinality(CallsTo("objects")) <= 2
  /\ Cardinality(CallsTo("associationTypes")) <= 1
  /\ Len(calls) <= 4

C21_NoRepeatedRequest ==
  Verifying =>
    /\ BoundedCalls
    /\ \A i, j \in CallsTo("objects") :
         calls[i].req.args = calls[j].req.args => i = j
    /\ \A i, j \in DOMAIN calls :
         (i < j /\ CallFailed(i)) => calls[j].req # calls[i].req

(***************************************************************************)
(* C21, amended: the probe is issued at most once for each side, so the    *)
(* same identifier given as both A and B is probed twice, the second time  *)
(* whatever the first probe answered; no other request is ever repeated,   *)
(* and nothing follows a failed fetch, a probe without answer or the       *)
(* association query.                                                      *)
(***************************************************************************)
C21_NoRetry ==
  Verifying =>
    /\ BoundedCalls
    /\ \A i, j \in DOMAIN calls :
         (i < j /\ calls[i].req = calls[j].req) =>
           /\ calls[i].req = ProbeRequest(objectA)
           /\ objectA = objectB
           /\ calls[i].resp.response
    /\ objectA # objectB =>
         /\ Cardinality(ProbesOf(objectA)) <= 1
         /\ Cardinality(ProbesOf(objectB)) <= 1
    /\ \A i \in DOMAIN calls :
         (CallFailed(i) /\ i < Len(calls)) =>
           calls[i].req.endpoint = "objects" /\ calls[i].resp.response

\* the same identifier on both sides, probed twice although the first probe
\* was answered with an error status
C21_Witness ==
  /\ Verifying
  /\ Exited
  /\ objectA = objectB
  /\ CallsTo("objects") = {2, 3}
  /\ calls[2].resp.status = 500
  /\ Len(calls) = 3

\* ---------------------------------------------------------------------------
\* C22  Strictly sequential requests

\* the place of an endpoint in the fixed order of requests
StageOf(endpoint) ==
  IF endpoint = "schemas" THEN 1
  ELSE IF endpoint = "objects" THEN 2
  ELSE 3

\* the object whose resolution is in progress at a position
ResolvingAt(position) == IF position = "resolveA" THEN objectA ELSE objectB

\* C22: during verify at most one gateway request is outstanding; the
\* outstanding request belongs to the step in progress (the directory fetch,
\* the probe for A while A is resolved, the probe for B only once A's
\* resolution has completed, the association query after the gate), it comes
\* after every request already answered in the fixed order, and the answered
\* requests are in the order directory, probe for A, probe for B, association
C22_Sequential ==
  Verifying =>
    /\ Len(outstanding) <= 1
    /\ \A k \in DOMAIN outstanding :
         LET req == outstanding[k]
         IN  /\ req.endpoint = "schemas" => pc = "fetch" /\ calls = <<>>
             /\ req.endpoint = "objects" =>
                  /\ pc \in {"resolveA", "resolveB"}
                  /\ req = ProbeRequest(ResolvingAt(pc))
                  /\ pc = "resolveB" =>
                       \/ InDirectory(directory, objectA)
                       \/ \E i \in ProbesOf(objectA) : i = Len(calls)
                  /\ pc = "resolveA" => CallsTo("objects") = {}
             /\ req.endpoint = "associationTypes" => pc = "assoc"
             /\ \A i \in DOMAIN calls :
                  StageOf(calls[i].req.endpoint) <= StageOf(req.endpoint)
             /\ req.endpoint # "objects" =>
                  \A i \in DOMAIN calls : calls[i].req.endpoint # req.endpoint
    /\ \A i, j \in DOMAIN calls :
         i < j => StageOf(calls[i].req.endpoint) <= StageOf(calls[j].req.endpoint)
    /\ \A i, j \in CallsTo("objects") :
         i < j => /\ calls[i].req = ProbeRequest(objectA)
                  /\ calls[j].req = ProbeRequest(objectB)
    /\ pc \in {"start", "gate", "emit", "catch", "exited"} => outstanding = <<>>

\* the probe for B is on its way after the directory fetch and the probe
\* for A have been answered
C22_Witness ==
  /\ Verifying
  /\ pc = "resolveB"
  /\ objectA # objectB
  /\ outstanding = <<ProbeRequest(objectB)>>
  /\ Len(calls) = 2
  /\ calls[2].req = ProbeRequest(objectA)

\* ---------------------------------------------------------------------------
\* C23  Cardinality hint

\* the definitions the association-types query answered with, when it was
\* issued and succeeded
ReturnedDefinitions ==
  IF \E i \in CallsTo("associationTypes") : AxiosResolves(calls[i].resp)
  THEN LET i == CHOOSE i \in CallsTo("associationTypes") : TRUE
       IN  Get(calls[i].resp.data).results
  ELSE <<>>

\* the name of the first returned definition when there is one and it is a
\* non-empty string
FirstDefinitionName ==
  IF /\ ReturnedDefinitions # <<>>
     /\ IsSome(ReturnedDefinitions[1].name)
     /\ Get(ReturnedDefinitions[1].name) # s_empty
  THEN ReturnedDefinitions[1].name
  ELSE None

\* C23: the cardinality hint of the verdict is the name of the first
\* definition the association query returned when that name is a non-empty
\* string, and null when the list is empty, the first definition is unnamed,
\* the query failed or was not issued; later definitions never supply it
C23_CardinalityHint ==
  /\ (Verifying /\ VerdictEmitted /\ verdict.kind = "json") =>
       /\ verdict.association.cardinality = FirstDefinitionName
       /\ CallsTo("associationTypes") = {} =>
            verdict.association.cardinality = None
       /\ verdict.association.types = ReturnedDefinitions
  /\ (Verifying /\ pc \in {"emit", "exited"} /\ caught = None) =>
       cardinality = IF IsSome(FirstDefinitionName)
                     THEN Get(FirstDefinitionName) ELSE s_empty

\* two definitions came back, the first one named, the second one not: the
\* hint is the first name
C23_Witness ==
  /\ Verifying /\ Exited /\ VerdictEmitted
  /\ verdict.kind = "json"
  /\ Len(verdict.association.types) = 2
  /\ verdict.association.types[1].name = Some(s_Primary)
  /\ verdict.association.types[2].name = None
  /\ verdict.association.cardinality = Some(s_Primary)

\* ---------------------------------------------------------------------------
\* C24  Ambiguous substring match

\* the input matches no schema by name or by label and the names of several
\* schemas contain it
AmbiguousPartial(dir, input) ==
  /\ ExactNameMatches(dir, input) = {}
  /\ LabelMatches(dir, input) = {}
  /\ Cardinality(PartialNameMatches(dir, input)) >= 2

\* the first schema, in the order of the directory response, whose name
\* contains the input
FirstPartial(dir, input) ==
  dir[CHOOSE i \in PartialNameMatches(dir, input) :
        \A j \in PartialNameMatches(dir, input) : i <= j]

\* the verdict reports one side as found in the directory under a name, and
\* carries nothing else about the lookup
ReportsUnambiguous(side, name) ==
  IF verdict.kind = "json"
  THEN /\ DOMAIN verdict = VerdictFields
       /\ DOMAIN verdict[side] = ObjectFields
       /\ verdict[side].exists
       /\ verdict[side].verifiedVia = "schemas"
       /\ verdict[side].internalName = name
  ELSE /\ verdict.lines[IF side = "objectA" THEN 2 ELSE 3] =
            <<"Object exists", name, sourceText("schemas")>>
       /\ stderr = <<>>

\* C24: when the input matches no schema by exact name or by label and the
\* names of several schemas contain it, the lookup resolves to the first of
\* them in the order of the directory response, and the verdict reports the
\* object as found under that name with no sign of the ambiguity
C24_FirstPartialWins ==
  Verifying =>
    /\ (AResolved /\ AmbiguousPartial(directory, objectA)) =>
         /\ schemaA = Some(FirstPartial(directory, objectA))
         /\ NamesResolved =>
              internalNameA = FirstPartial(directory, objectA).name
         /\ ProbesOf(objectA) = {}
         /\ VerdictEmitted =>
              ReportsUnambiguous("objectA", FirstPartial(directory, objectA).name)
    /\ (BResolved /\ AmbiguousPartial(directory, objectB)) =>
         /\ schemaB = Some(FirstPartial(directory, objectB))
         /\ NamesResolved =>
              internalNameB = FirstPartial(directory, objectB).name
         /\ ProbesOf(objectB) = {}
         /\ VerdictEmitted =>
              ReportsUnambiguous("objectB", FirstPartial(directory, objectB).name)

\* the names of both schemas of the directory contain A, and the verdict
\* names the first one
C24_Witness ==
  /\ Verifying /\ Exited /\ VerdictEmitted
  /\ verdict.kind = "json"
  /\ objectA # objectB
  /\ Len(directory) = 2
  /\ AmbiguousPartial(directory, objectA)
  /\ verdict.objectA.internalName = directory[1].name
  /\ directory[2].name = s_deals

\* ---------------------------------------------------------------------------
\* C25  Exit code of the object command

\* the single-schema request of inspectObjectCommand and its answer
SchemaCall == calls[1]
SchemaRequestFailed ==
  /\ command = "object" /\ Exited
  /\ Len(calls) = 1
  /\ ~AxiosResolves(SchemaCall.resp)

\* C25: inspectObjectCommand ends with exit code 2 exactly when the
\* single-schema request failed with HTTP status 404, and with exit code 3
\* for every other failure of that request, whatever the error text says
C25_ObjectExitCode ==
  /\ (command = "object" /\ Exited) =>
       (exitCode = OBJECT_NOT_FOUND <=>
          /\ SchemaRequestFailed
          /\ SchemaCall.resp.response
          /\ SchemaCall.resp.status = 404)
  /\ (SchemaRequestFailed
        /\ ~(SchemaCall.resp.response /\ SchemaCall.resp.status = 404)) =>
       exitCode = API_ERROR

\* ---------------------------------------------------------------------------
\* C26  Missing credential

\* HUBSPOT_ACCESS_TOKEN is unset or empty
NoCredential == accessToken \in {None, Some(s_empty)}

\* C26: without a credential each of the commands schemas, object,
\* associations, verify and custom sends no request to the gateway, emits no
\* verdict or other result, and ends with exit code 3 after the two lines
\* that ask for the credential
C26_MissingCredential ==
  NoCredential =>
    /\ calls = <<>>
    /\ outstanding = <<>>
    /\ stdout = <<>>
    /\ Exited =>
         /\ exitCode = API_ERROR
         /\ stderr = MissingTokenLines
    /\ pc \in {"start", "exited"}

\* verify was run with an empty credential and has ended
C26_Witness ==
  /\ command = "verify"
  /\ accessToken = Some(s_empty)
  /\ Exited
  /\ exitCode = API_ERROR
  /\ calls = <<>>

\* ---------------------------------------------------------------------------
\* C27  Plain associations command

\* inspectAssociationsCommand without --verify, past the credential check
PlainAssociations ==
  command = "associations" /\ ~options.verify /\ ~NoCredential

\* C27: inspectAssociationsCommand without --verify fetches no directory and
\* probes no object; it sends exactly one association-types request, for the
\* raw inputs (A, B); it ends with exit code 1 exactly when that request
\* fails and with exit code 0 whenever it succeeds, also with zero
\* definitions; it never ends with exit code 2
C27_PlainAssociations ==
  PlainAssociations =>
    /\ CallsTo("schemas") = {}
    /\ CallsTo("objects") = {}
    /\ ~Exited => calls = <<>>
    /\ Exited =>
         /\ Len(calls) = 1
         /\ calls[1].req = Request("GET", "associationTypes", <<objectA, objectB>>)
         /\ exitCode = ASSOCIATION_INVALID <=> ~AxiosResolves(calls[1].resp)
         /\ AxiosResolves(calls[1].resp) => exitCode = SUCCESS
         /\ exitCode # OBJECT_NOT_FOUND

\* the request succeeded with zero definitions and the command ended with 0
C27_Witness ==
  /\ PlainAssociations /\ Exited
  /\ objectA # objectB
  /\ AxiosResolves(calls[1].resp)
  /\ Get(calls[1].resp.data).results = <<>>
  /\ exitCode = SUCCESS

\* ---------------------------------------------------------------------------
\* C28  Consistency of the JSON verdict

\* C28: in every JSON verdict of verify, valid is true if and only if both
\* objects exist and the association is defined, if and only if
\* recommendedApiPath is non-null, if and only if the process ends with exit
\* code 0; a defined association implies that both objects exist and that
\* the list of types is non-empty
C28_JsonConsistency ==
  (Verifying /\ VerdictEmitted /\ verdict.kind = "json") =>
    /\ verdict.valid <=>
         /\ verdict.objectA.exists
         /\ verdict.objectB.exists
         /\ verdict.association.defined
    /\ verdict.valid <=> IsSome(verdict.recommendedApiPath)
    /\ Exited
    /\ verdict.valid <=> exitCode = SUCCESS
    /\ verdict.association.defined =>
         /\ verdict.objectA.exists
         /\ verdict.objectB.exists
         /\ verdict.association.types # <<>>

\* a valid JSON verdict and one that is not valid although both objects exist
C28_Witness ==
  /\ Verifying /\ Exited /\ VerdictEmitted
  /\ verdict.kind = "json"
  /\ verdict.valid
  /\ IsSome(verdict.recommendedApiPath)
  /\ verdict.association.types # <<>>
  /\ exitCode = SUCCESS

\* ---------------------------------------------------------------------------
\* C29  Exit code does not depend on the output mode

\* the name the directory gives to an input, by the precedence of the lookup
DirectoryName(input) ==
  LET first(hits) == CHOOSE i \in hits : \A j \in hits : i <= j
      exact == ExactNameMatches(directory, input)
      label == LabelMatches(directory, input)
      partial == PartialNameMatches(directory, input)
  IN  IF exact # {} THEN directory[first(exact)].name
      ELSE IF label # {} THEN directory[first(label)].name
      ELSE IF partial # {} THEN directory[first(partial)].name
      ELSE input

\* the requests of a run and the answers it got
RequestsOf(log) == [i \in DOMAIN log |-> log[i].req]

\* an answer after which the run is abandoned: a failed directory fetch or a
\* probe without HTTP response
FatalAt(i) ==
  \/ calls[i].req.endpoint = "schemas" /\ ~AxiosResolves(calls[i].resp)
  \/ calls[i].req.endpoint = "objects" /\ ~calls[i].resp.response

\* the requests that the inputs and the answers alone call for: the
\* directory, a probe for each input that the directory does not hold, and
\* the association query when both objects exist
ProbesCalledFor ==
  (IF InDirectory(directory, objectA) THEN <<>> ELSE <<ProbeRequest(objectA)>>)
    \o (IF InDirectory(directory, objectB) THEN <<>> ELSE <<ProbeRequest(objectB)>>)
\* the place of the probe for A, and for B, in the log when there is one
ProbeIndexA == IF InDirectory(directory, objectA) THEN 0 ELSE 2
ProbeIndexB ==
  IF InDirectory(directory, objectB) THEN 0
  ELSE IF InDirectory(directory, objectA) THEN 2 ELSE 3
ExistsByAnswers(input, probeIndex) ==
  \/ InDirectory(directory, input)
  \/ /\ probeIndex <= Len(calls)
     /\ calls[probeIndex].resp.response
     /\ calls[probeIndex].resp.status = 200
BothExistByAnswers ==
  /\ ExistsByAnswers(objectA, ProbeIndexA)
  /\ ExistsByAnswers(objectB, ProbeIndexB)
RequestsCalledFor ==
  <<Request("GET", "schemas", <<>>)>> \o ProbesCalledFor
    \o (IF BothExistByAnswers
        THEN <<Request("GET", "associationTypes",
                       <<DirectoryName(objectA), DirectoryName(objectB)>>)>>
        ELSE <<>>)

\* the exit code that the inputs and the answers alone call for
ExitCodeCalledFor ==
  IF \E i \in DOMAIN calls : FatalAt(i) THEN API_ERROR
  ELSE IF ~BothExistByAnswers THEN OBJECT_NOT_FOUND
  ELSE IF /\ AxiosResolves(calls[Len(calls)].resp)
          /\ Get(calls[Len(calls)].resp.data).results # <<>>
       THEN SUCCESS
       ELSE ASSOCIATION_INVALID

\* C29: the exit code of verify and the sequence of its gateway requests are
\* determined by the inputs A and B and the answers of the gateway; they are
\* the same whether or not the json, quiet or verbose options are set
C29_ModeIndependent ==
  (Verifying /\ Exited /\ ~NoCredential) =>
    /\ exitCode = ExitCodeCalledFor
    /\ IF \E i \in DOMAIN calls : FatalAt(i)
       THEN /\ FatalAt(Len(calls))
            /\ Len(calls) <= 1 + Len(ProbesCalledFor)
            /\ RequestsOf(calls) = SubSeq(RequestsCalledFor, 1, Len(calls))
       ELSE RequestsOf(calls) = RequestsCalledFor

\* a run in text mode with the quiet and verbose options that made all four
\* requests and ended with exit code 1
C29_Witness ==
  /\ Verifying /\ Exited
  /\ ~options.json /\ options.quiet /\ options.verbose
  /\ Len(calls) = 4
  /\ exitCode = ASSOCIATION_INVALID

\* ---------------------------------------------------------------------------
\* C30  Lookup failure condition

\* no singular or plural label equals the input and no name contains it
NothingMatches(dir, input) ==
  LabelMatches(dir, input) = {} /\ PartialNameMatches(dir, input) = {}

\* what the verdict says about the source of one side
ReportedViaSchemas(side) ==
  IF verdict.kind = "json"
  THEN verdict[side].exists /\ verdict[side].verifiedVia = "schemas"
  ELSE LET line == verdict.lines[IF side = "objectA" THEN 2 ELSE 3]
       IN  line[1] = "Object exists" /\ line[3] = sourceText("schemas")

\* C30: findSchemaByNameOrLabel returns not-found exactly when no schema's
\* singular or plural label equals the input and no schema's name contains
\* it, case-insensitively; so the empty string resolves to the first schema
\* of a non-empty directory, and verify then reports that object as existing
\* with source "schemas" and issues no probe for it
C30_LookupFailure ==
  Verifying =>
    /\ AResolved => (schemaA = None <=> NothingMatches(directory, objectA))
    /\ BResolved => (schemaB = None <=> NothingMatches(directory, objectB))
    /\ (AResolved /\ objectA = s_empty /\ directory # <<>>) =>
         /\ schemaA = Some(directory[1])
         /\ objectAExists /\ verifiedViaA = "schemas"
         /\ ProbesOf(s_empty) = {}
         /\ VerdictEmitted => ReportedViaSchemas("objectA")
    /\ (BResolved /\ objectB = s_empty /\ directory # <<>>) =>
         /\ schemaB = Some(directory[1])
         /\ objectBExists /\ verifiedViaB = "schemas"
         /\ VerdictEmitted => ReportedViaSchemas("objectB")
    /\ \A i \in CallsTo("objects") :
         calls[i].req.args[1] = s_empty => directory = <<>>

\* verify of the empty string against a directory of two schemas: the first
\* one is reported, and the other input, which nothing matches, was probed
C30_Witness ==
  /\ Verifying /\ Exited /\ VerdictEmitted
  /\ verdict.kind = "json"
  /\ objectA = s_empty
  /\ Len(directory) = 2
  /\ verdict.objectA.internalName = directory[1].name
  /\ verdict.objectA.verifiedVia = "schemas"
  /\ NothingMatches(directory, objectB)
  /\ CallsTo("objects") = {2}

=============================================================================
